---- MODULE Spec2Model ----
(***************************************************************************)
(* Attendance session and marking engine of the coach back office:         *)
(* tenant resolution, role permissions, class-session lifecycle and the    *)
(* three marking entry points (teacher bulk mark, student geo self-mark,   *)
(* correction), as implemented under src/apps.                             *)
(***************************************************************************)
EXTENDS Integers, Sequences, FiniteSets, TLC

VARIABLES
    branches,      \* org_branch table: branch id -> row
    memberships,   \* org_membership table: set of rows
    students,      \* acad_student_profile table: set of rows
    enrollments,   \* acad_batch_enrollment table: set of rows
    sessions,      \* att_class_session table: session id -> row
    records,       \* att_student_attendance table: set of rows
    resp,          \* the last request that ran to completion, with its response
    pcs            \* concurrent marking requests in flight: worker -> frame

vars == <<branches, memberships, students, enrollments, sessions, records, resp, pcs>>

store == <<branches, memberships, students, enrollments, sessions, records>>

(***************************************************************************)
(* Enumerations of the models.                                             *)
(***************************************************************************)
NoneStr == "None"
NoneInt == -1

Role == {"ORG_OWNER", "ORG_ADMIN", "BRANCH_ADMIN", "TEACHER", "STAFF", "STUDENT", "PARENT"}

MembershipStatus == {"ACTIVE", "PENDING", "SUSPENDED", "REJECTED"}

SessionStatus == {"OPEN", "CLOSED", "CANCELLED"}

AttendanceStatus == {"PRESENT", "ABSENT", "LATE", "LEAVE"}

MarkedBy == {"TEACHER", "STUDENT_GEO", "ADMIN"}

EnrollmentStatus == {"ACTIVE", "LEFT", "PAUSED"}

(***************************************************************************)
(* The tenants of the model: two organisations, organisation A with two    *)
(* branches, organisation B with one.  Batches are rows created outside    *)
(* the engine; Memberships is the membership table the engine starts with. *)
(***************************************************************************)
Organisations == {"orgA", "orgB"}

BranchIds == {"brA1", "brA2", "brB1"}

BranchOrg == [brA1 |-> "orgA", brA2 |-> "orgA", brB1 |-> "orgB"]

Batches ==
    [batA1 |-> [organisation |-> "orgA", branch |-> "brA1"],
     batA2 |-> [organisation |-> "orgA", branch |-> "brA2"],
     batB1 |-> [organisation |-> "orgB", branch |-> "brB1"]]

BatchIds == DOMAIN Batches

Membership(u, o, b, r, s, t) ==
    [user |-> u, organisation |-> o, branch |-> b, role |-> r, status |-> s,
     created_at |-> t]

Memberships ==
    { Membership("tch1", "orgA", "brA1", "TEACHER", "ACTIVE", 1),
      Membership("tch2", "orgA", NoneStr, "TEACHER", "ACTIVE", 2),
      Membership("adm", "orgA", "brA1", "BRANCH_ADMIN", "ACTIVE", 3),
      Membership("own", "orgA", NoneStr, "ORG_OWNER", "ACTIVE", 4),
      Membership("stu1", "orgA", "brA1", "STUDENT", "ACTIVE", 5),
      Membership("stu2", "orgA", "brA2", "STUDENT", "ACTIVE", 6),
      Membership("par", "orgA", "brA1", "PARENT", "ACTIVE", 7),
      Membership("tch1", "orgB", NoneStr, "TEACHER", "PENDING", 8),
      Membership("tchB", "orgB", "brB1", "TEACHER", "ACTIVE", 9),
      Membership("sus", "orgA", "brA1", "TEACHER", "SUSPENDED", 10),
      Membership("rej", "orgA", "brA1", "STUDENT", "REJECTED", 11) }

Users == {m.user : m \in Memberships}

Anonymous == "anon"

(***************************************************************************)
(* Geography.  Coordinates are micro-degrees.                              *)
(***************************************************************************)
CenterLat == 28613900

CenterLng == 77209000

NoCenter == [geo_center_lat |-> NoneInt, geo_center_lng |-> NoneInt]

Abs(x) == IF x < 0 THEN -x ELSE x

\* The haversine arc of two points on one meridian is R * |d_phi|; with
\* R = 6371000 m one micro-degree of latitude is 0.111195 m.  int() truncates.
MetersPerDegree == 111195

MicroPerDegree == 1000000

DistanceM(lat1, lng1, lat2, lng2) ==
    (Abs(lat2 - lat1) * MetersPerDegree) \div MicroPerDegree

(***************************************************************************)
(* Tenant context resolver (apps/common/tenant.py).  A request carries the *)
(* authenticated user, the X-Org selector and the X-Branch selector; a     *)
(* missing selector is NoneStr.                                            *)
(***************************************************************************)
NoMembership ==
    Membership(NoneStr, NoneStr, NoneStr, NoneStr, NoneStr, NoneInt)

TenantError(kind) ==
    [ok |-> FALSE, err |-> kind, organisation |-> NoneStr, branch |-> NoneStr,
     role |-> NoneStr, membership_branch |-> NoneStr,
     membership |-> NoMembership]

\* A membership filter that forgets the status.
any_membership(user, org) ==
    {m \in memberships : m.user = user /\ m.organisation = org}

ActiveMemberships(user, org) ==
    {m \in memberships :
        m.user = user /\ m.organisation = org /\ m.status = "ACTIVE"}

\* An ordering that takes the membership created first.
earliest_membership(ms) ==
    CHOOSE m \in ms : \A n \in ms : m.created_at <= n.created_at

\* .order_by("-created_at").first()
LatestMembership(ms) ==
    CHOOSE m \in ms : \A n \in ms : n.created_at <= m.created_at

get_tenant_context(user, org_pid, branch_pid) ==
    IF user = Anonymous THEN TenantError("denied")
    ELSE IF org_pid = NoneStr THEN TenantError("invalid")
    ELSE IF org_pid \notin Organisations THEN TenantError("invalid")
    ELSE IF branch_pid # NoneStr
            /\ ~(branch_pid \in DOMAIN branches
                 /\ branches[branch_pid].organisation = org_pid)
         THEN TenantError("invalid")
    ELSE IF ActiveMemberships(user, org_pid) = {} THEN TenantError("denied")
    ELSE LET m == LatestMembership(ActiveMemberships(user, org_pid))
         IN  [ok |-> TRUE, err |-> NoneStr, organisation |-> org_pid,
              branch |-> branch_pid, role |-> m.role,
              membership_branch |-> m.branch, membership |-> m]

(***************************************************************************)
(* Permission classes (apps/common/permissions.py, attendance views).      *)
(***************************************************************************)
IsTeacher(ctx) == ctx.role = "TEACHER"

IsStudent(ctx) == ctx.role = "STUDENT"

\* DRF runs the permission class of the action before its handler: the
\* outcome of check_permissions for a request, "pass" when the handler runs.
check_permissions(ctx, permitted) ==
    IF ~ctx.ok THEN ctx.err
    ELSE IF ~permitted THEN "denied"
    ELSE "pass"

(***************************************************************************)
(* The request/response log.                                               *)
(***************************************************************************)
NoResp ==
    [op |-> NoneStr, user |-> NoneStr, org |-> NoneStr, branch |-> NoneStr,
     outcome |-> NoneStr, session |-> NoneInt, rec |-> NoneInt,
     rows |-> <<>>, status |-> NoneStr, old_status |-> NoneStr,
     saved |-> NoneInt, validated |-> FALSE, distance_m |-> NoneInt,
     lat |-> NoneInt, lng |-> NoneInt,
     batch_id |-> NoneStr, session_date |-> NoneInt,
     max_self_mark_distance_m |-> NoneInt,
     patch |-> [batch |-> NoneStr, status |-> NoneStr,
                allow_student_self_mark |-> NoneStr]]

Request(op, c) ==
    [NoResp EXCEPT !.op = op, !.user = c.user, !.org = c.org, !.branch = c.branch]

Caller(u, o, b) == [user |-> u, org |-> o, branch |-> b]

\* The callers of the model: (user, X-Org, X-Branch).
Callers ==
    { Caller("tch1", "orgA", "brA1"), Caller("tch2", "orgA", "brA1"),
      Caller("stu2", "orgA", "brA2"),
      Caller("tch1", "orgA", "brB1"), Caller("tch1", "orgB", "brB1"),
      Caller("adm", "orgA", "brA1"), Caller("own", "orgA", "brA1"),
      Caller("stu1", "orgA", "brA1"), Caller("stu2", "orgA", "brA1"),
      Caller("par", "orgA", "brA1"), Caller(Anonymous, "orgA", "brA1") }

\* The response of a request that does not run to completion: "invalid"
\* (400), "denied" (403), "not_found" (404); "error" is an unhandled
\* exception (500).  All of them leave the store as it was.
Fail(req, outcome) ==
    [NoResp EXCEPT !.op = req.op, !.user = req.user, !.org = req.org,
                   !.branch = req.branch, !.outcome = outcome]

(***************************************************************************)
(* The attendance table and update_or_create on its (session, student)     *)
(* key (attendance/models.py, attendance/api/views.py).                    *)
(***************************************************************************)
RowsFor(recs, session_id, student_id) ==
    {r \in recs : r.session = session_id /\ r.student = student_id}

NextId(recs) == Cardinality(recs) + 1

NewRecord(recs, session_id, student_id, defaults) ==
    [id |-> NextId(recs), session |-> session_id, student |-> student_id,
     organisation |-> defaults.organisation, branch |-> defaults.branch,
     batch |-> defaults.batch, status |-> defaults.status,
     marked_by_type |-> defaults.marked_by_type,
     marked_by_user |-> defaults.marked_by_user,
     distance_from_branch_m |-> NoneInt,
     marked_lat |-> NoneInt, marked_lng |-> NoneInt]

\* An upsert that leaves a row it finds as it is.
keep_found(r, defaults) == r

ApplyDefaults(r, defaults) ==
    [r EXCEPT !.organisation = defaults.organisation, !.branch = defaults.branch,
              !.batch = defaults.batch, !.status = defaults.status,
              !.marked_by_type = defaults.marked_by_type,
              !.marked_by_user = defaults.marked_by_user]

\* An insert-only ledger: every marking appends a row.
append_only(recs, session_id, student_id, defaults) ==
    [ok |-> TRUE,
     recs |-> recs \cup {NewRecord(recs, session_id, student_id, defaults)}]

\* StudentAttendance.objects.update_or_create(session=, student=, defaults=):
\* get the row of the key; update it, or insert a new one.  branch is NOT
\* NULL, and get() raises when the key has several rows.
update_or_create(recs, session_id, student_id, defaults) ==
    LET found == RowsFor(recs, session_id, student_id)
    IN  IF defaults.branch = NoneStr \/ Cardinality(found) > 1
        THEN [ok |-> FALSE, recs |-> recs]
        ELSE IF found = {}
        THEN [ok |-> TRUE,
              recs |-> recs \cup {NewRecord(recs, session_id, student_id, defaults)}]
        ELSE LET r == CHOOSE x \in found : TRUE
             IN  [ok |-> TRUE,
                  recs |-> (recs \ {r}) \cup {ApplyDefaults(r, defaults)}]

Defaults(ctx, session, status, by_type, user) ==
    [organisation |-> ctx.organisation, branch |-> ctx.branch,
     batch |-> session.batch, status |-> status,
     marked_by_type |-> by_type, marked_by_user |-> user]

(***************************************************************************)
(* Teacher bulk mark.                                                      *)
(***************************************************************************)
Row(pid, st) == [student_public_id |-> pid, status |-> st]

\* A serializer that looks at the status of the first row only.
first_row_only(rows) ==
    /\ Len(rows) >= 1
    /\ rows[1].status \in AttendanceStatus

\* TeacherBulkMarkSerializer: records has min_length=1 and every status is a
\* choice of AttendanceStatus.
TeacherBulkMarkSerializerValid(rows) ==
    /\ Len(rows) >= 1
    /\ \A i \in 1..Len(rows) : rows[i].status \in AttendanceStatus

\* A session lookup that takes only sessions that are OPEN.
open_session_in_branch(session_id, ctx) ==
    /\ session_id \in DOMAIN sessions
    /\ sessions[session_id].organisation = ctx.organisation
    /\ sessions[session_id].branch = ctx.branch
    /\ sessions[session_id].status = "OPEN"

\* ClassSession.objects.filter(id=, organisation=, branch=).first()
SessionInBranch(session_id, ctx) ==
    /\ session_id \in DOMAIN sessions
    /\ sessions[session_id].organisation = ctx.organisation
    /\ sessions[session_id].branch = ctx.branch

\* A lookup of the named students that forgets the branch of the caller.
student_map_any_branch(ctx, rows) ==
    {st \in students :
        /\ st.organisation = ctx.organisation
        /\ \E i \in 1..Len(rows) : rows[i].student_public_id = st.public_id}

\* StudentProfile.objects.filter(organisation=, branch=, public_id__in=)
student_map(ctx, rows) ==
    {st \in students :
        /\ st.organisation = ctx.organisation
        /\ st.branch = ctx.branch
        /\ \E i \in 1..Len(rows) : rows[i].student_public_id = st.public_id}

RECURSIVE BulkLoop(_, _, _, _, _, _)
BulkLoop(acc, rows, i, ctx, session_id, user) ==
    IF i > Len(rows) \/ ~acc.ok THEN acc
    ELSE LET hit == {st \in student_map(ctx, rows) :
                        st.public_id = rows[i].student_public_id}
         IN  IF hit = {} THEN BulkLoop(acc, rows, i + 1, ctx, session_id, user)
             ELSE LET st == CHOOSE x \in hit : TRUE
                      up == update_or_create(acc.recs, session_id, st.id,
                                Defaults(ctx, sessions[session_id], rows[i].status,
                                         "TEACHER", user))
                  IN  BulkLoop([ok |-> up.ok, recs |-> up.recs,
                                saved |-> acc.saved + 1],
                               rows, i + 1, ctx, session_id, user)

teacher_bulk_mark(c, session_id, rows) ==
    LET ctx == get_tenant_context(c.user, c.org, c.branch)
        req == [Request("teacher_bulk_mark", c) EXCEPT
                    !.session = session_id, !.rows = rows]
        perm == check_permissions(ctx, IsTeacher(ctx))
    IN  IF perm # "pass" THEN
            [resp |-> Fail(req, perm), records |-> records]
        ELSE IF ~TeacherBulkMarkSerializerValid(rows) THEN
            [resp |-> Fail(req, "invalid"), records |-> records]
        ELSE IF ~SessionInBranch(session_id, ctx) THEN
            [resp |-> Fail(req, "invalid"), records |-> records]
        ELSE LET res == BulkLoop([ok |-> TRUE, recs |-> records, saved |-> 0],
                                 rows, 1, ctx, session_id, c.user)
             IN  IF ~res.ok
                 THEN [resp |-> [req EXCEPT !.outcome = "error"],
                       records |-> records]
                 ELSE [resp |-> [req EXCEPT !.outcome = "ok", !.saved = res.saved],
                       records |-> res.recs]

(***************************************************************************)
(* Student geo self-mark.                                                  *)
(***************************************************************************)
\* branch.geo_center_lat is tested for truth: unset, or zero.
HasCenter(b) == b.geo_center_lat # NoneInt /\ b.geo_center_lat # 0

\* StudentProfile.objects.filter(user=, organisation=).first()
StudentOfUser(user, org) ==
    {st \in students : st.user = user /\ st.organisation = org}

Rejected == [ok |-> FALSE, session |-> NoneInt, student |-> NoneStr,
             distance_m |-> NoneInt]

\* StudentGeoMarkSerializer.validate
validate(ctx, user, session_id, lat, lng) ==
    IF ~(session_id \in DOMAIN sessions
         /\ sessions[session_id].organisation = ctx.organisation)
    THEN Rejected
    ELSE LET session == sessions[session_id]
             branch == branches[Batches[session.batch].branch]
             distance_m ==
                 IF HasCenter(branch)
                 THEN DistanceM(branch.geo_center_lat, branch.geo_center_lng,
                                lat, lng)
                 ELSE 0
         IN  IF session.status # "OPEN" THEN Rejected
             ELSE IF ~session.allow_student_self_mark THEN Rejected
             ELSE IF StudentOfUser(user, ctx.organisation) = {} THEN Rejected
             ELSE IF HasCenter(branch)
                     /\ distance_m > session.max_self_mark_distance_m
                  THEN Rejected
             ELSE [ok |-> TRUE, session |-> session_id,
                   student |-> (CHOOSE st \in StudentOfUser(user, ctx.organisation)
                                    : TRUE).id,
                   distance_m |-> distance_m]

\* The member of MarkedBy for a mark a student made.
student_geo == "STUDENT_GEO"

\* The member of MarkedBy the self-mark view names (views.py, "marked_by_type").
StudentMarkedByName == "STUDENT"

\* status is a ChoiceField with default PRESENT.
StatusOrDefault(status) == IF status = NoneStr THEN "PRESENT" ELSE status

student_geo_mark(c, session_id, lat, lng, status) ==
    LET ctx == get_tenant_context(c.user, c.org, c.branch)
        req == [Request("student_geo_mark", c) EXCEPT
                    !.session = session_id, !.lat = lat, !.lng = lng,
                    !.status = StatusOrDefault(status)]
        perm == check_permissions(ctx, IsStudent(ctx))
        vd == validate(ctx, c.user, session_id, lat, lng)
    IN  IF perm # "pass" THEN
            [resp |-> Fail(req, perm), records |-> records]
        ELSE IF StatusOrDefault(status) \notin AttendanceStatus THEN
            [resp |-> Fail(req, "invalid"), records |-> records]
        ELSE IF ~vd.ok THEN
            [resp |-> Fail(req, "invalid"), records |-> records]
        ELSE IF StudentMarkedByName \notin MarkedBy THEN
            \* AttributeError while the defaults are built: 500, rolled back
            [resp |-> [req EXCEPT !.outcome = "error", !.validated = TRUE,
                                  !.distance_m = vd.distance_m],
             records |-> records]
        ELSE LET up == update_or_create(records, vd.session, vd.student,
                           Defaults(ctx, sessions[vd.session],
                                    StatusOrDefault(status),
                                    StudentMarkedByName, c.user))
             IN  IF ~up.ok
                 THEN [resp |-> [req EXCEPT !.outcome = "error", !.validated = TRUE,
                                            !.distance_m = vd.distance_m],
                       records |-> records]
                 ELSE [resp |-> [req EXCEPT !.outcome = "ok", !.validated = TRUE,
                                            !.distance_m = vd.distance_m],
                       records |-> up.recs]

(***************************************************************************)
(* Correction of one record.                                               *)
(***************************************************************************)
\* (request.data.get("status") or "").strip().upper(), on the inputs of the model
Upper ==
    [PRESENT |-> "PRESENT", ABSENT |-> "ABSENT", LATE |-> "LATE",
     LEAVE |-> "LEAVE", absent |-> "ABSENT", EXCUSED |-> "EXCUSED"]

StatusInputs == DOMAIN Upper

\* get_object() on StudentAttendanceViewSet: the queryset is scoped to the
\* organisation and branch of the context.
RecordInBranch(pk, ctx) ==
    {r \in records :
        r.id = pk /\ r.organisation = ctx.organisation /\ r.branch = ctx.branch}

\* A correction that leaves the acting user of the first mark in place.
KeepMarker(attendance, new_status, user) ==
    [attendance EXCEPT !.status = new_status, !.marked_by_type = "TEACHER"]

\* the fields correct() assigns before save(update_fields=...)
CorrectFields(attendance, new_status, user) ==
    [attendance EXCEPT !.status = new_status,
                       !.marked_by_type = "TEACHER",
                       !.marked_by_user = user]

correct(c, pk, status) ==
    LET ctx == get_tenant_context(c.user, c.org, c.branch)
        new_status == Upper[status]
        req == [Request("correct", c) EXCEPT !.rec = pk, !.status = new_status]
        perm == check_permissions(ctx, IsTeacher(ctx))
    IN  IF perm # "pass" THEN
            [resp |-> Fail(req, perm), records |-> records]
        ELSE IF new_status \notin AttendanceStatus THEN
            [resp |-> Fail(req, "invalid"), records |-> records]
        ELSE IF RecordInBranch(pk, ctx) = {} THEN
            [resp |-> Fail(req, "not_found"), records |-> records]
        ELSE LET attendance == CHOOSE r \in RecordInBranch(pk, ctx) : TRUE
                 saved == CorrectFields(attendance, new_status, c.user)
             IN  [resp |-> [req EXCEPT !.outcome = "ok",
                                       !.old_status = attendance.status,
                                       !.session = attendance.session],
                  records |-> (records \ {attendance}) \cup {saved}]

(***************************************************************************)
(* Class sessions: open, close and partial update (ClassSessionViewSet).   *)
(***************************************************************************)
\* get_object(): TenantViewSet.get_queryset scopes to organisation and branch
SessionObject(pk, ctx) == SessionInBranch(pk, ctx)

set_status(c, op, pk, status) ==
    LET ctx == get_tenant_context(c.user, c.org, c.branch)
        req == [Request(op, c) EXCEPT !.session = pk]
        perm == check_permissions(ctx, IsTeacher(ctx))
    IN  IF perm # "pass" THEN
            [resp |-> Fail(req, perm), sessions |-> sessions]
        ELSE IF ~SessionObject(pk, ctx) THEN
            [resp |-> Fail(req, "not_found"), sessions |-> sessions]
        ELSE [resp |-> [req EXCEPT !.outcome = "ok", !.status = status],
              sessions |-> [sessions EXCEPT ![pk].status = status]]

open(c, pk) == set_status(c, "open", pk, "OPEN")

close(c, pk) == set_status(c, "close", pk, "CLOSED")

\* A PATCH body over the writable fields of ClassSessionSerializer; a field
\* the body leaves out is NoneStr.
Patch(batch, status, allow) ==
    [batch |-> batch, status |-> status, allow_student_self_mark |-> allow]

Booleans == [true |-> TRUE, false |-> FALSE]

\* uq_session_batch_date_time, as the serializer's unique-together validator
\* sees it for the instance being updated
SessionClash(pk, batch) ==
    \E other \in DOMAIN sessions \ {pk} :
        /\ sessions[other].batch = batch
        /\ sessions[other].session_date = sessions[pk].session_date
        /\ sessions[other].start_time = sessions[pk].start_time

\* ClassSessionSerializer field validation: batch is a primary key of any
\* Batch row, status a choice of SessionStatus, the flag a boolean.
ClassSessionSerializerValid(pk, patch) ==
    /\ patch.batch # NoneStr =>
           patch.batch \in BatchIds /\ ~SessionClash(pk, patch.batch)
    /\ patch.status # NoneStr => patch.status \in SessionStatus
    /\ patch.allow_student_self_mark # NoneStr =>
           patch.allow_student_self_mark \in DOMAIN Booleans

ApplyPatch(session, patch) ==
    [session EXCEPT
        !.batch = IF patch.batch # NoneStr THEN patch.batch ELSE @,
        !.status = IF patch.status # NoneStr THEN patch.status ELSE @,
        !.allow_student_self_mark =
            IF patch.allow_student_self_mark # NoneStr
            THEN Booleans[patch.allow_student_self_mark] ELSE @]

partial_update(c, pk, patch) ==
    LET ctx == get_tenant_context(c.user, c.org, c.branch)
        req == [Request("partial_update", c) EXCEPT !.session = pk, !.patch = patch]
        perm == check_permissions(ctx, IsTeacher(ctx))
    IN  IF perm # "pass" THEN
            [resp |-> Fail(req, perm), sessions |-> sessions]
        ELSE IF ~SessionObject(pk, ctx) THEN
            [resp |-> Fail(req, "not_found"), sessions |-> sessions]
        ELSE IF ~ClassSessionSerializerValid(pk, patch) THEN
            [resp |-> Fail(req, "invalid"), sessions |-> sessions]
        ELSE [resp |-> [req EXCEPT !.outcome = "ok"],
              sessions |-> [sessions EXCEPT ![pk] = ApplyPatch(@, patch)]]

(***************************************************************************)
(* The store after set-up: the branches, one student per branch, their     *)
(* enrollments and one session per branch, all created before the engine   *)
(* runs; no attendance has been marked.                                    *)
(***************************************************************************)
BranchRow(org, center) ==
    [organisation |-> org, geo_center_lat |-> center.geo_center_lat,
     geo_center_lng |-> center.geo_center_lng, geo_radius_m |-> 50]

Center == [geo_center_lat |-> CenterLat, geo_center_lng |-> CenterLng]

Student(id, pid, user, org, branch) ==
    [id |-> id, public_id |-> pid, user |-> user, organisation |-> org,
     branch |-> branch]

Enrollment(id, batch, student, status) ==
    [id |-> id, batch |-> batch, student |-> student, status |-> status]

Session(org, branch, batch, date) ==
    [organisation |-> org, branch |-> branch, batch |-> batch,
     session_date |-> date, start_time |-> 9, status |-> "OPEN",
     allow_student_self_mark |-> TRUE, max_self_mark_distance_m |-> 50]

InitBranches ==
    [b \in BranchIds |->
        BranchRow(BranchOrg[b], IF b = "brA2" THEN NoCenter ELSE Center)]

InitStudents ==
    { Student("st1", "STU1", "stu1", "orgA", "brA1"),
      Student("st2", "STU2", "stu2", "orgA", "brA2"),
      Student("st3", "STU3", "stu3", "orgA", "brA1"),
      Student("st4", "STU4", "stu4", "orgA", "brA1"),
      Student("stB", "STUB", "stuB", "orgB", "brB1") }

InitEnrollments ==
    { Enrollment(1, "batA1", "st1", "ACTIVE"),
      Enrollment(2, "batA2", "st2", "ACTIVE"),
      Enrollment(3, "batA1", "st3", "ACTIVE"),
      Enrollment(4, "batA1", "st4", "ACTIVE"),
      Enrollment(5, "batA1", "st2", "LEFT"),
      Enrollment(6, "batB1", "stB", "ACTIVE") }

InitSessions ==
    (1 :> Session("orgA", "brA1", "batA1", 1))
    @@ (2 :> Session("orgB", "brB1", "batB1", 2))
    @@ (3 :> Session("orgA", "brA2", "batA2", 1))

Idle == [w \in {} |-> NoneStr]

Init ==
    /\ branches = InitBranches
    /\ students = InitStudents
    /\ memberships = Memberships
    /\ enrollments = InitEnrollments
    /\ sessions = InitSessions
    /\ records = {}
    /\ resp = NoResp
    /\ pcs = Idle

(***************************************************************************)
(* Inputs of the requests.                                                 *)
(***************************************************************************)
\* the sessions of the set-up and those the model lets be created
MaxSessions == 4

SessionIds == 1..MaxSessions

RecordIds == {NextId({}), NextId({}) + 1}

PublicIds == {"STU1", "STU2", "STUB", "STUX"}

RowStatuses == {"PRESENT", "ABSENT"}

RowInputs ==
    {Row(p, st) : p \in PublicIds, st \in RowStatuses} \cup {Row("STU1", "EXCUSED")}

OneRowLists == {<<>>} \cup {<<r>> : r \in RowInputs}

\* A point 44 m north of the branch centre and a point 122 m north of it.
Points == { <<CenterLat + 400, CenterLng>>, <<CenterLat + 1100, CenterLng>> }

GeoStatuses == {NoneStr, "LATE", "EXCUSED"}

Patches ==
    {Patch(b, NoneStr, NoneStr) : b \in BatchIds \cup {"batX"}}
    \cup {Patch(NoneStr, st, NoneStr) : st \in SessionStatus \cup {"DONE"}}
    \cup {Patch(NoneStr, NoneStr, a) : a \in {"true", "false"}}

(***************************************************************************)
(* One action per request.  A request that is refused or fails changes     *)
(* nothing; one that completes replaces the store and is logged.           *)
(***************************************************************************)
Log(r) == resp' = IF r.resp.outcome = "ok" THEN r.resp ELSE resp

MarkStep(r) ==
    /\ Log(r)
    /\ records' = r.records
    /\ UNCHANGED <<branches, memberships, students, enrollments, sessions, pcs>>

SessionStep(r) ==
    /\ Log(r)
    /\ sessions' = r.sessions
    /\ UNCHANGED <<branches, memberships, students, enrollments, records, pcs>>

TeacherPermission(c) ==
    LET ctx == get_tenant_context(c.user, c.org, c.branch)
    IN  check_permissions(ctx, IsTeacher(ctx))

StudentPermission(c) ==
    LET ctx == get_tenant_context(c.user, c.org, c.branch)
    IN  check_permissions(ctx, IsStudent(ctx))

TeacherBulkMarkBy(C, lists) ==
    \E c \in C :
        IF TeacherPermission(c) # "pass" THEN UNCHANGED vars
        ELSE \E session_id \in SessionIds, rows \in lists :
                MarkStep(teacher_bulk_mark(c, session_id, rows))

StudentGeoMarkBy(C) ==
    \E c \in C :
        IF StudentPermission(c) # "pass" THEN UNCHANGED vars
        ELSE \E session_id \in SessionIds, p \in Points, status \in GeoStatuses :
                MarkStep(student_geo_mark(c, session_id, p[1], p[2], status))

CorrectBy(C) ==
    \E c \in C :
        IF TeacherPermission(c) # "pass" THEN UNCHANGED vars
        ELSE \E pk \in RecordIds, status \in StatusInputs :
                MarkStep(correct(c, pk, status))

OpenBy(C) ==
    \E c \in C :
        IF TeacherPermission(c) # "pass" THEN UNCHANGED vars
        ELSE \E pk \in SessionIds : SessionStep(open(c, pk))

CloseBy(C) ==
    \E c \in C :
        IF TeacherPermission(c) # "pass" THEN UNCHANGED vars
        ELSE \E pk \in SessionIds : SessionStep(close(c, pk))

PartialUpdateBy(C) ==
    \E c \in C :
        IF TeacherPermission(c) # "pass" THEN UNCHANGED vars
        ELSE \E pk \in SessionIds, patch \in Patches :
                SessionStep(partial_update(c, pk, patch))

TeacherBulkMark == TeacherBulkMarkBy(Callers, OneRowLists)

StudentGeoMark == StudentGeoMarkBy(Callers)

Correct == CorrectBy(Callers)

OpenSession == OpenBy(Callers)

CloseSession == CloseBy(Callers)

PartialUpdate == PartialUpdateBy(Callers)

Next ==
    \/ TeacherBulkMark
    \/ StudentGeoMark
    \/ Correct
    \/ OpenSession
    \/ CloseSession
    \/ PartialUpdate

Spec == Init /\ [][Next]_vars

(***************************************************************************)
(* Properties.                                                             *)
(***************************************************************************)
Context(c) == get_tenant_context(c.user, c.org, c.branch)

MarkOps == {"teacher_bulk_mark", "student_geo_mark", "correct"}

\* 4xx responses: the request was turned down by a check of the program
Refusals == {"invalid", "denied", "not_found"}

\* the provenance each entry point is written to leave on the record
Provenance ==
    [teacher_bulk_mark |-> "TEACHER", student_geo_mark |-> "STUDENT_GEO",
     correct |-> "TEACHER"]

\* the students a bulk-mark list resolves to in the branch of the caller
Resolvable(q, pid) ==
    {st \in students :
        st.public_id = pid /\ st.organisation = q.org /\ st.branch = q.branch}

\* index of the last row of the list that names public id pid
LastRowOf(rows, pid) ==
    CHOOSE i \in 1..Len(rows) :
        /\ rows[i].student_public_id = pid
        /\ \A j \in (i + 1)..Len(rows) : rows[j].student_public_id # pid

\* the (session, student, status) marks a completed marking request asked for
Marks(q) ==
    IF q.op = "teacher_bulk_mark"
    THEN {[session |-> q.session, student |-> st.id,
           status |-> q.rows[LastRowOf(q.rows, st.public_id)].status] :
             st \in {x \in students :
                        \E i \in 1..Len(q.rows) :
                            x \in Resolvable(q, q.rows[i].student_public_id)}}
    ELSE IF q.op = "correct"
    THEN {[session |-> r.session, student |-> r.student, status |-> q.status] :
             r \in {x \in records : x.id = q.rec}}
    ELSE {[session |-> q.session, student |-> st.id, status |-> q.status] :
             st \in {x \in students : x.user = q.user}}

\* C1: after a completed marking request on (session, student), whatever was
\* marked on the key before, the ledger holds exactly one record of the key,
\* with the status, acting user and provenance of that request.
C1_UpsertOneRow ==
    (resp.outcome = "ok" /\ resp.op \in MarkOps) =>
        \A m \in Marks(resp) :
              /\ Cardinality(RowsFor(records, m.session, m.student)) = 1
              /\ \A r \in RowsFor(records, m.session, m.student) :
                    /\ r.status = m.status
                    /\ r.marked_by_user = resp.user
                    /\ r.marked_by_type = Provenance[resp.op]

\* a second marking (a correction by tch2) of a key first marked by a bulk
\* mark of tch1, with another status
C1_Witness ==
    /\ resp.op = "correct" /\ resp.outcome = "ok"
    /\ resp.old_status # resp.status
    /\ resp.user = "tch2"
    /\ \E r \in records : r.id = resp.rec /\ r.marked_by_user = "tch2"

\* C3: no request made in a context of one organisation leaves a session,
\* record or batch reference that crosses into another organisation, or
\* changes a row of another organisation (every caller of the model that
\* resolves a context resolves it to orgA).
C3_TenantIsolation ==
    /\ \A c \in Callers : Context(c).ok => Context(c).organisation = "orgA"
    /\ \A id \in DOMAIN sessions :
          /\ Batches[sessions[id].batch].organisation = sessions[id].organisation
          /\ sessions[id].organisation = "orgB" => sessions[id] = InitSessions[id]
    /\ \A r \in records :
          /\ r.organisation = "orgA"
          /\ sessions[r.session].organisation = "orgA"
          /\ Batches[r.batch].organisation = "orgA"
          /\ \A st \in students : st.id = r.student => st.organisation = "orgA"

\* inputs of a self-mark: session, point, status
GeoInputs == SessionIds \X Points \X GeoStatuses

SelfMark(c, in) == student_geo_mark(c, in[1], in[2][1], in[2][2], in[3])

\* the student profile of the caller in the organisation and branch of the context
OwnProfile(c) ==
    {st \in students :
        /\ st.user = c.user
        /\ st.organisation = Context(c).organisation
        /\ st.branch = Context(c).branch}

ActivelyEnrolled(st, batch) ==
    \E e \in enrollments :
        e.student = st.id /\ e.batch = batch /\ e.status = "ACTIVE"

GeofenceBranch(session_id) == branches[Batches[sessions[session_id].batch].branch]

\* C4: for a student with a profile in the branch, a self-mark on a session
\* of the branch with a valid status succeeds and writes the record when the
\* session is OPEN, self-mark is enabled, the student is actively enrolled in
\* the batch and the distance is within the radius, and is refused otherwise.
C4_SelfMarkGate ==
    \A c \in Callers, in \in GeoInputs :
        LET ctx == Context(c)
            r == SelfMark(c, in)
        IN  ( /\ ctx.ok /\ IsStudent(ctx) /\ OwnProfile(c) # {}
              /\ SessionInBranch(in[1], ctx)
              /\ GeofenceBranch(in[1]).geo_center_lat # NoneInt
              /\ StatusOrDefault(in[3]) \in AttendanceStatus ) =>
            LET session == sessions[in[1]]
                d == DistanceM(GeofenceBranch(in[1]).geo_center_lat,
                               GeofenceBranch(in[1]).geo_center_lng,
                               in[2][1], in[2][2])
                holds == /\ session.status = "OPEN"
                         /\ session.allow_student_self_mark
                         /\ \E st \in OwnProfile(c) :
                                ActivelyEnrolled(st, session.batch)
                         /\ d <= session.max_self_mark_distance_m
            IN  IF holds
                THEN /\ r.resp.outcome = "ok"
                     /\ \E st \in OwnProfile(c) :
                            RowsFor(r.records, in[1], st.id) # {}
                ELSE r.resp.outcome \in Refusals /\ r.records = records

\* C5: a self-mark on a session whose geofence branch has no centre is
\* refused, and no record is created or changed.
C5_FailClosed ==
    \A c \in Callers, in \in GeoInputs :
        LET r == SelfMark(c, in)
        IN  ( /\ in[1] \in DOMAIN sessions
              /\ GeofenceBranch(in[1]).geo_center_lat = NoneInt ) =>
            r.resp.outcome \in Refusals /\ r.records = records

\* C6: a self-mark that meets every precondition leaves the record of the
\* (session, student) with provenance STUDENT_GEO, the caller as acting user,
\* the submitted status (PRESENT by default), the distance and the coordinates.
C6_SelfMarkRecord ==
    \A c \in Callers, in \in GeoInputs :
        LET r == SelfMark(c, in)
        IN  r.resp.validated =>
              /\ r.resp.outcome = "ok"
              /\ \E rec \in r.records :
                    /\ rec.session = in[1]
                    /\ \E st \in students : st.user = c.user /\ rec.student = st.id
                    /\ rec.marked_by_type = "STUDENT_GEO"
                    /\ rec.marked_by_user = c.user
                    /\ rec.status = StatusOrDefault(in[3])
                    /\ rec.distance_from_branch_m = r.resp.distance_m
                    /\ rec.marked_lat = in[2][1] /\ rec.marked_lng = in[2][2]

\* C10: a self-mark gets past its checks only for a caller whose role is
\* Student and who has a student profile in the organisation and branch of
\* the context; any other caller is refused and nothing is written; a record
\* written is one of the caller's own profile.
C10_OwnProfileInBranch ==
    \A c \in Callers, in \in GeoInputs :
        LET ctx == Context(c)
            r == SelfMark(c, in)
            entitled == ctx.ok /\ IsStudent(ctx) /\ OwnProfile(c) # {}
        IN  /\ (r.resp.validated \/ r.resp.outcome = "ok") => entitled
            /\ ~entitled => r.resp.outcome \in Refusals /\ r.records = records
            /\ \A rec \in r.records \ records :
                  \E st \in OwnProfile(c) : rec.student = st.id

TeacherOrHigher == {"TEACHER", "BRANCH_ADMIN", "ORG_ADMIN", "ORG_OWNER"}

\* the responses of the staff operations to caller c, over the inputs of the model
StaffResponses(c) ==
    {open(c, pk).resp : pk \in SessionIds}
    \cup {close(c, pk).resp : pk \in SessionIds}
    \cup {teacher_bulk_mark(c, pk, rows).resp : pk \in SessionIds, rows \in OneRowLists}
    \cup {correct(c, pk, st).resp : pk \in RecordIds, st \in StatusInputs}

StaffEffects(c) ==
    {<<open(c, pk).sessions, records>> : pk \in SessionIds}
    \cup {<<close(c, pk).sessions, records>> : pk \in SessionIds}
    \cup {<<sessions, teacher_bulk_mark(c, pk, rows).records>> :
             pk \in SessionIds, rows \in OneRowLists}
    \cup {<<sessions, correct(c, pk, st).records>> :
             pk \in RecordIds, st \in StatusInputs}

\* C9: open, close, bulk mark and correction are permitted to a caller whose
\* ACTIVE membership role is Teacher or higher, and are denied without any
\* change of state to Student and Parent.
C9_TeacherOrHigher ==
    \A c \in Callers :
        LET ctx == Context(c)
        IN  ctx.ok =>
              /\ ctx.role \in TeacherOrHigher =>
                    \A q \in StaffResponses(c) : q.outcome # "denied"
              /\ ctx.role \in {"STUDENT", "PARENT"} =>
                    /\ \A q \in StaffResponses(c) : q.outcome = "denied"
                    /\ StaffEffects(c) = {<<sessions, records>>}

MaxRows == 2

\* rows naming students of the branch and a student of another branch of the
\* organisation (STU2)
BulkRows ==
    { Row("STU1", "PRESENT"), Row("STU1", "ABSENT"), Row("STU3", "LATE"),
      Row("STU2", "PRESENT") }

\* five targets, two of which do not resolve in the branch: STUX is the
\* identifier of no student, STU2 that of a student of another branch
FiveTargets ==
    << Row("STU1", "PRESENT"), Row("STUX", "PRESENT"), Row("STU3", "ABSENT"),
       Row("STU2", "PRESENT"), Row("STU4", "LEAVE") >>

BulkLists ==
    UNION {[1..n -> BulkRows] : n \in 0..MaxRows} \cup {FiveTargets}

BulkCallers == {Caller("tch1", "orgA", "brA1"), Caller("tch2", "orgA", "brA1")}

\* the session of branch brA1
BulkSessions == {1}

TeacherBulkMarkLists ==
    \E c \in BulkCallers, session_id \in BulkSessions, rows \in BulkLists :
        MarkStep(teacher_bulk_mark(c, session_id, rows))

NextBulk == TeacherBulkMarkLists

SpecBulk == Init /\ [][NextBulk]_vars

\* the rows of the list whose identifier resolves in the branch of the caller
ResolvableRows(q) ==
    {i \in 1..Len(q.rows) : Resolvable(q, q.rows[i].student_public_id) # {}}

\* the students the list resolves to
Targets(q) ==
    UNION {Resolvable(q, q.rows[i].student_public_id) : i \in 1..Len(q.rows)}

NoStudentTwice(rows) ==
    \A i, j \in 1..Len(rows) :
        rows[i].student_public_id = rows[j].student_public_id => i = j

\* every teacher's bulk mark of a non-empty list on the session of the branch
\* completes, with saved the number of rows that resolve
BulkCompletes ==
    \A c \in BulkCallers, session_id \in BulkSessions, rows \in BulkLists :
        LET out == teacher_bulk_mark(c, session_id, rows).resp
        IN  Len(rows) >= 1 =>
              /\ out.outcome = "ok"
              /\ out.saved = Cardinality(ResolvableRows(out))

\* what a completed bulk mark has written
BulkWritten ==
    (resp' # resp /\ resp'.op = "teacher_bulk_mark") =>
        LET q == resp'
            keys == {st.id : st \in Targets(q)}
        IN  /\ q.saved = Cardinality(ResolvableRows(q))
            /\ NoStudentTwice(q.rows) => q.saved = Cardinality(Targets(q))
            /\ \A st \in Targets(q) :
                  /\ Cardinality(RowsFor(records', q.session, st.id)) = 1
                  /\ \A r \in RowsFor(records', q.session, st.id) :
                        /\ r.marked_by_type = "TEACHER"
                        /\ r.marked_by_user = q.user
                        /\ r.status = q.rows[LastRowOf(q.rows, st.public_id)].status
            /\ {r \in records' : ~(r.session = q.session /\ r.student \in keys)}
                 = {r \in records : ~(r.session = q.session /\ r.student \in keys)}

\* C8: a bulk mark on a session of the branch completes whatever unknown
\* identifiers its list holds; saved counts the rows that resolve, which for
\* a list naming no student twice is the number of resolvable students; every
\* resolved student gets one record with provenance TEACHER and the caller as
\* acting user; no record of any other key is created or changed.
C8_BulkSkipsUnknown == []BulkCompletes /\ [][BulkWritten]_vars

\* the list of five targets, marked over an earlier mark of STU1 by the other
\* teacher: saved is 3 and the session has the three records
C8_Witness ==
    /\ resp.op = "teacher_bulk_mark" /\ resp.outcome = "ok"
    /\ resp.rows = FiveTargets /\ resp.saved = 3 /\ resp.user = "tch2"
    /\ {r.student : r \in records} = {"st1", "st3", "st4"}
    /\ \A r \in records : r.marked_by_type = "TEACHER" /\ r.marked_by_user = "tch2"
    /\ \E r \in records : r.student = "st1" /\ r.id = 1 /\ r.status = "PRESENT"

(***************************************************************************)
(* Requests running concurrently.  Each request is one database            *)
(* transaction (ATOMIC_REQUESTS): what it writes is applied to the table   *)
(* when it commits.  A row written or selected for update stays locked     *)
(* until the commit; an insert of a key waits for a pending insert of the  *)
(* same key, and fails on a committed row of the key.                      *)
(***************************************************************************)
NumWorkers == 2

Workers == 1..NumWorkers

Resting ==
    [pc |-> "idle", op |-> NoneStr, c |-> Caller(NoneStr, NoneStr, NoneStr),
     session |-> NoneInt, student |-> NoneStr, status |-> NoneStr,
     row |-> NoneInt, conflict |-> FALSE, old_status |-> NoneStr,
     insert |-> {}]

InitConc ==
    /\ branches = InitBranches
    /\ students = InitStudents
    /\ memberships = Memberships
    /\ enrollments = InitEnrollments
    /\ sessions = InitSessions
    /\ records = {}
    /\ resp = NoResp
    /\ pcs = [w \in Workers |-> Resting]

\* A table without the unique constraint: no insert ever conflicts.
no_constraint(rows, session_id, student_id) == FALSE

\* UniqueConstraint(fields=["session", "student"]): an insert of the key
\* conflicts with the rows of the key in rows
uq_session_student_attendance(rows, session_id, student_id) ==
    RowsFor(rows, session_id, student_id) # {}

\* the rows other transactions have inserted and not yet committed
PendingInserts(w) == UNION {pcs[v].insert : v \in Workers \ {w}}

\* the row is locked by another transaction that updates it
Locked(w, id) ==
    \E v \in Workers \ {w} : pcs[v].pc = "commit" /\ pcs[v].row = id

ConcCallers == {Caller("tch1", "orgA", "brA1"), Caller("tch2", "orgA", "brA1")}

\* two marks of one student: every race of the model is on one key
ConcRows == {Row("STU1", "PRESENT"), Row("STU1", "ABSENT")}

\* teacher_bulk_mark up to its update_or_create: permission, serializer,
\* session and student lookups
BeginBulk(w) ==
    /\ pcs[w].pc = "idle"
    /\ \E c \in ConcCallers, session_id \in BulkSessions, row \in ConcRows :
          LET ctx == get_tenant_context(c.user, c.org, c.branch)
          IN  /\ check_permissions(ctx, IsTeacher(ctx)) = "pass"
              /\ TeacherBulkMarkSerializerValid(<<row>>)
              /\ SessionInBranch(session_id, ctx)
              /\ \E st \in student_map(ctx, <<row>>) :
                    pcs' = [pcs EXCEPT ![w] =
                              [Resting EXCEPT !.pc = "get",
                                  !.op = "teacher_bulk_mark", !.c = c,
                                  !.session = session_id, !.student = st.id,
                                  !.status = row.status]]
    /\ UNCHANGED <<store, resp>>

\* update_or_create: select_for_update().get(session=, student=)
Get(w) ==
    /\ pcs[w].pc = "get"
    /\ LET found == RowsFor(records, pcs[w].session, pcs[w].student)
       IN  IF found = {}
           THEN pcs' = [pcs EXCEPT ![w].pc = "create"]
           ELSE \E r \in found :
                   /\ ~Locked(w, r.id)
                   /\ pcs' = [pcs EXCEPT ![w].pc = "commit", ![w].row = r.id]
    /\ UNCHANGED <<store, resp>>

\* update_or_create: the row was not found, create(session=, student=,
\* **defaults); on IntegrityError get the row again
Create(w) ==
    /\ pcs[w].pc = "create"
    /\ ~uq_session_student_attendance(PendingInserts(w), pcs[w].session,
                                      pcs[w].student)
    /\ IF uq_session_student_attendance(records, pcs[w].session, pcs[w].student)
       THEN pcs' = [pcs EXCEPT ![w].pc = "get", ![w].conflict = TRUE]
       ELSE LET ctx == get_tenant_context(pcs[w].c.user, pcs[w].c.org,
                                          pcs[w].c.branch)
                new == NewRecord(records \cup PendingInserts(w),
                          pcs[w].session, pcs[w].student,
                          Defaults(ctx, sessions[pcs[w].session], pcs[w].status,
                                   "TEACHER", pcs[w].c.user))
            IN  pcs' = [pcs EXCEPT ![w].pc = "commit", ![w].insert = {new}]
    /\ UNCHANGED <<store, resp>>

ConcRecordIds == {NextId({})}

ConcStatuses == {"LATE"}

\* correct up to its save(): permission, status check and get_object()
BeginCorrect(w) ==
    /\ pcs[w].pc = "idle"
    /\ \E c \in ConcCallers, pk \in ConcRecordIds, status \in ConcStatuses :
          LET out == correct(c, pk, status).resp
          IN  /\ out.outcome = "ok"
              /\ pcs' = [pcs EXCEPT ![w] =
                           [Resting EXCEPT !.pc = "save", !.op = "correct",
                               !.c = c, !.session = out.session,
                               !.status = out.status, !.row = pk,
                               !.old_status = out.old_status]]
    /\ UNCHANGED <<store, resp>>

\* attendance.save(update_fields=[...]): UPDATE of the row, which waits
\* for the lock of the row
Save(w) ==
    /\ pcs[w].pc = "save"
    /\ ~Locked(w, pcs[w].row)
    /\ pcs' = [pcs EXCEPT ![w].pc = "commit"]
    /\ UNCHANGED <<store, resp>>

\* the table with the writes of the transaction of w applied
Committed(w) ==
    LET me == pcs[w]
        ctx == get_tenant_context(me.c.user, me.c.org, me.c.branch)
    IN  IF me.insert # {} THEN records \cup me.insert
        ELSE {IF r.id # me.row THEN r
              ELSE IF me.op = "correct"
                   THEN CorrectFields(r, me.status, me.c.user)
                   ELSE ApplyDefaults(r, Defaults(ctx, sessions[me.session],
                                          me.status, "TEACHER", me.c.user)) :
                r \in records}

\* the response of the request, sent after its transaction has committed
Response(w) ==
    LET me == pcs[w]
    IN  IF me.op = "correct"
        THEN [Request("correct", me.c) EXCEPT !.outcome = "ok", !.rec = me.row,
                  !.status = me.status, !.old_status = me.old_status,
                  !.session = me.session]
        ELSE [Request("teacher_bulk_mark", me.c) EXCEPT !.outcome = "ok",
                  !.session = me.session, !.saved = 1,
                  !.rows = <<Row(CHOOSE pid \in PublicIds \cup {"STU3", "STU4"} :
                                   \E st \in students :
                                       st.id = me.student /\ st.public_id = pid,
                                 me.status)>>]

Commit(w) ==
    /\ pcs[w].pc = "commit"
    /\ records' = Committed(w)
    /\ resp' = Response(w)
    /\ pcs' = [pcs EXCEPT ![w] = Resting]
    /\ UNCHANGED <<branches, memberships, students, enrollments, sessions>>

NextConc ==
    \E w \in Workers :
        \/ BeginBulk(w)
        \/ Get(w)
        \/ Create(w)
        \/ BeginCorrect(w)
        \/ Save(w)
        \/ Commit(w)

SpecConc == InitConc /\ [][NextConc]_vars

\* C2: whatever the interleaving of the concurrent bulk marks and
\* corrections, the table never holds two records of one (session, student),
\* and no two records share an id.
C2_OneRowPerKey ==
    /\ \A r1, r2 \in records :
          (r1.session = r2.session /\ r1.student = r2.student) => r1 = r2
    /\ \A r1, r2 \in records : r1.id = r2.id => r1 = r2

\* two bulk marks raced on the key: one found no row, lost the insert to the
\* other and fell back to updating the row the other committed
C2_Witness ==
    /\ Cardinality(RowsFor(records, 1, "st1")) = 1
    /\ resp.op = "teacher_bulk_mark" /\ resp.outcome = "ok"
    /\ \E w \in Workers :
          /\ pcs[w].op = "teacher_bulk_mark" /\ pcs[w].conflict
          /\ pcs[w].pc = "commit" /\ pcs[w].c.user # resp.user
          /\ \E r \in records : r.id = pcs[w].row /\ r.status # pcs[w].status

(***************************************************************************)
(* Session list and timetable list (reads).                                *)
(***************************************************************************)
Slot(id, org, branch, batch) ==
    [id |-> id, organisation |-> org, branch |-> branch, batch |-> batch]

\* the timetable: one slot per batch
TimeTableSlots ==
    {Slot(b, Batches[b].organisation, Batches[b].branch, b) : b \in BatchIds}

IsStudentOrParent(ctx) == ctx.role \in {"STUDENT", "PARENT"}

\* GET /api/sessions/: IsTeacher, then the sessions of the organisation and
\* branch of the context
list_sessions(c) ==
    LET ctx == get_tenant_context(c.user, c.org, c.branch)
        perm == check_permissions(ctx, IsTeacher(ctx))
    IN  IF perm # "pass" THEN [outcome |-> perm, results |-> {}]
        ELSE [outcome |-> "ok",
              results |-> {id \in DOMAIN sessions : SessionInBranch(id, ctx)}]

\* GET /api/timetable/: IsStudentOrParent, then the slots of the branch whose
\* batch the student profile of the caller is actively enrolled in
list_timetable(c) ==
    LET ctx == get_tenant_context(c.user, c.org, c.branch)
        perm == check_permissions(ctx, IsStudentOrParent(ctx))
        qs == {t \in TimeTableSlots :
                  t.organisation = ctx.organisation /\ t.branch = ctx.branch}
        student == {st \in students :
                       /\ st.user = c.user
                       /\ st.organisation = ctx.organisation
                       /\ st.branch = ctx.branch}
        enrolled_batch_ids ==
            {e.batch : e \in {x \in enrollments :
                                 /\ x.status = "ACTIVE"
                                 /\ \E st \in student : x.student = st.id}}
    IN  IF perm # "pass" THEN [outcome |-> perm, results |-> {}]
        ELSE [outcome |-> "ok",
              results |-> {t.id : t \in {x \in qs : x.batch \in enrolled_batch_ids}}]

ListSessionsBy(C) ==
    \E c \in C : list_sessions(c).outcome \in {"ok", "denied", "invalid"}
                 /\ UNCHANGED vars

ListTimetableBy(C) ==
    \E c \in C : list_timetable(c).outcome \in {"ok", "denied", "invalid"}
                 /\ UNCHANGED vars

\* C11: the session list and the timetable list returned to a Student with a
\* profile in the branch are exactly the sessions and slots of the branch
\* whose batch the student is actively enrolled in, and the lists returned to
\* a Teacher hold every session and slot of the branch.
C11_EnrollmentScopedLists ==
    \A c \in Callers :
        LET ctx == Context(c)
        IN  ctx.ok =>
              /\ (ctx.role = "STUDENT" /\ OwnProfile(c) # {}) =>
                    /\ list_sessions(c).outcome = "ok"
                    /\ list_sessions(c).results =
                         {id \in DOMAIN sessions :
                             /\ SessionInBranch(id, ctx)
                             /\ \E st \in OwnProfile(c) :
                                   ActivelyEnrolled(st, sessions[id].batch)}
                    /\ list_timetable(c).outcome = "ok"
                    /\ list_timetable(c).results =
                         {t.id : t \in {x \in TimeTableSlots :
                             /\ x.organisation = ctx.organisation
                             /\ x.branch = ctx.branch
                             /\ \E st \in OwnProfile(c) :
                                   ActivelyEnrolled(st, x.batch)}}
              /\ ctx.role = "TEACHER" =>
                    /\ list_sessions(c).outcome = "ok"
                    /\ list_sessions(c).results =
                         {id \in DOMAIN sessions : SessionInBranch(id, ctx)}
                    /\ list_timetable(c).outcome = "ok"
                    /\ list_timetable(c).results =
                         {t.id : t \in {x \in TimeTableSlots :
                             x.organisation = ctx.organisation
                             /\ x.branch = ctx.branch}}

(***************************************************************************)
(* Tenant resolution on its own: any identity with any selectors.          *)
(***************************************************************************)
TenantUsers == Users \cup {Anonymous}

OrgSelectors == Organisations \cup {"orgX", NoneStr}

BranchSelectors == BranchIds \cup {"brX", NoneStr}

ResolveTenant ==
    \E user \in TenantUsers, org_pid \in OrgSelectors,
       branch_pid \in BranchSelectors :
        LET ctx == get_tenant_context(user, org_pid, branch_pid)
        IN  /\ resp' = [NoResp EXCEPT !.op = "get_tenant_context",
                            !.user = user, !.org = org_pid,
                            !.branch = branch_pid,
                            !.outcome = IF ctx.ok THEN "ok" ELSE ctx.err]
            /\ UNCHANGED <<store, pcs>>

NextTenant == ResolveTenant

SpecTenant == Init /\ [][NextTenant]_vars

\* C12: tenant resolution returns a context exactly when the user is
\* authenticated, the organisation selector names an organisation, the branch
\* selector, if given, names a branch of it, and the user has an ACTIVE
\* membership in the organisation; the membership of the context is a
\* membership of the user in that organisation, and is ACTIVE.
C12_TenantFailsClosed ==
    resp.op = "get_tenant_context" =>
        LET ctx == get_tenant_context(resp.user, resp.org, resp.branch)
            valid ==
                /\ resp.user # Anonymous
                /\ resp.org \in Organisations
                /\ resp.branch # NoneStr =>
                      (resp.branch \in BranchIds /\ BranchOrg[resp.branch] = resp.org)
                /\ \E m \in memberships :
                      /\ m.user = resp.user /\ m.organisation = resp.org
                      /\ m.status = "ACTIVE"
        IN  /\ (resp.outcome = "ok") <=> valid
            /\ ctx.ok <=> valid
            /\ ~valid => resp.outcome \in {"invalid", "denied"}
            /\ ctx.ok =>
                  /\ ctx.organisation = resp.org /\ ctx.branch = resp.branch
                  /\ ctx.membership \in memberships
                  /\ ctx.membership.user = resp.user
                  /\ ctx.membership.organisation = resp.org
                  /\ ctx.membership.status = "ACTIVE"
                  /\ ctx.role = ctx.membership.role

\* a teacher of orgA whose membership in orgB is PENDING asks for orgB and
\* is turned down
C12_Witness ==
    /\ resp.op = "get_tenant_context"
    /\ resp.user = "tch1" /\ resp.org = "orgB" /\ resp.branch = "brB1"
    /\ resp.outcome = "denied"
    /\ get_tenant_context("tch1", "orgA", "brA1").ok

\* C13: a session whose status is CANCELLED keeps that status in every step,
\* and a step of open or close changes a status only from CLOSED to OPEN
\* (open) or from OPEN to CLOSED (close).
C13_CancelledTerminal ==
    [][ \A id \in DOMAIN sessions :
          /\ sessions[id].status = "CANCELLED" =>
                sessions'[id].status = "CANCELLED"
          /\ (resp' # resp /\ resp'.op \in {"open", "close"}
              /\ sessions'[id].status # sessions[id].status) =>
                \/ /\ resp'.op = "close"
                   /\ sessions[id].status = "OPEN"
                   /\ sessions'[id].status = "CLOSED"
                \/ /\ resp'.op = "open"
                   /\ sessions[id].status = "CLOSED"
                   /\ sessions'[id].status = "OPEN"
      ]_vars

(***************************************************************************)
(* Session creation (ClassSessionViewSet.create / perform_create) and the  *)
(* session lifecycle on its own.                                           *)
(***************************************************************************)
\* A POST body: "batch" is the serializer's field, "batch_id" the key
\* perform_create reads; a key the body leaves out is NoneStr (NoneInt).
Body(batch, batch_id, date, status, allow) ==
    [batch |-> batch, batch_id |-> batch_id, session_date |-> date,
     status |-> status, allow_student_self_mark |-> allow]

\* a body that also supplies "max_self_mark_distance_m"
WithRadius(body, radius) ==
    [f \in DOMAIN body \cup {"max_self_mark_distance_m"} |->
        IF f = "max_self_mark_distance_m" THEN radius ELSE body[f]]

\* request.data.get("max_self_mark_distance_m")
BodyRadius(body) ==
    IF "max_self_mark_distance_m" \in DOMAIN body
    THEN body.max_self_mark_distance_m ELSE NoneInt

\* uq_session_batch_date_time for a row about to be inserted
CreateClash(batch, date) ==
    \E other \in DOMAIN sessions :
        /\ sessions[other].batch = batch
        /\ sessions[other].session_date = date
        /\ sessions[other].start_time = Session("", "", "", 0).start_time

\* ClassSessionSerializer on create: batch and session_date are required
CreateSerializerValid(body) ==
    /\ body.batch \in BatchIds
    /\ body.session_date # NoneInt
    /\ ~CreateClash(body.batch, body.session_date)
    /\ body.status # NoneStr => body.status \in SessionStatus
    /\ body.allow_student_self_mark # NoneStr =>
           body.allow_student_self_mark \in DOMAIN Booleans
    /\ BodyRadius(body) # NoneInt => BodyRadius(body) >= 0

\* A batch lookup that forgets the organisation and branch of the caller.
any_batch(batch_id, ctx) == batch_id \in BatchIds

\* Batch.objects.filter(id=batch_id, organisation=, branch=).first()
BatchInBranch(batch_id, ctx) ==
    /\ batch_id \in BatchIds
    /\ Batches[batch_id].organisation = ctx.organisation
    /\ Batches[batch_id].branch = ctx.branch

NextSessionId == Cardinality(DOMAIN sessions) + 1

\* serializer.save(organisation=, branch=, batch=, created_by=): the model
\* defaults fill what the body leaves out
NewSession(ctx, body) ==
    [Session(ctx.organisation, ctx.branch, body.batch_id, body.session_date)
        EXCEPT !.status = IF body.status # NoneStr THEN body.status ELSE @,
               !.allow_student_self_mark =
                   IF body.allow_student_self_mark # NoneStr
                   THEN Booleans[body.allow_student_self_mark] ELSE @,
               !.max_self_mark_distance_m =
                   IF BodyRadius(body) # NoneInt THEN BodyRadius(body) ELSE @]

create(c, body) ==
    LET ctx == get_tenant_context(c.user, c.org, c.branch)
        req == [Request("create", c) EXCEPT
                   !.batch_id = body.batch_id,
                   !.session_date = body.session_date,
                   !.max_self_mark_distance_m = BodyRadius(body),
                   !.patch = Patch(body.batch, body.status,
                                   body.allow_student_self_mark)]
        perm == check_permissions(ctx, IsTeacher(ctx))
    IN  IF perm # "pass" THEN
            [resp |-> Fail(req, perm), sessions |-> sessions]
        ELSE IF ~CreateSerializerValid(body) THEN
            [resp |-> Fail(req, "invalid"), sessions |-> sessions]
        ELSE IF body.batch_id = NoneStr THEN
            [resp |-> Fail(req, "invalid"), sessions |-> sessions]
        ELSE IF ~BatchInBranch(body.batch_id, ctx) THEN
            [resp |-> Fail(req, "invalid"), sessions |-> sessions]
        ELSE IF CreateClash(body.batch_id, body.session_date) THEN
            [resp |-> [req EXCEPT !.outcome = "error"], sessions |-> sessions]
        ELSE [resp |-> [req EXCEPT !.outcome = "ok", !.session = NextSessionId],
              sessions |-> [id \in DOMAIN sessions \cup {NextSessionId} |->
                               IF id \in DOMAIN sessions THEN sessions[id]
                               ELSE NewSession(ctx, body)]]

SessionCallers ==
    {Caller("tch1", "orgA", "brA1"), Caller("stu1", "orgA", "brA1")}

Bodies ==
    {Body(b, bid, d, st, a) :
        b \in {NoneStr, "batA1", "batB1"},
        bid \in {NoneStr, "batA1", "batA2", "batB1", "batX"},
        d \in {1, 2, 3}, st \in {NoneStr, "CLOSED"}, a \in {NoneStr, "false"}}

StatusPatches == {Patch(NoneStr, st, NoneStr) : st \in SessionStatus}

CreateSessionBy(C) ==
    \E c \in C :
        IF TeacherPermission(c) # "pass" THEN UNCHANGED vars
        ELSE \E body \in Bodies :
                /\ Cardinality(DOMAIN sessions) < MaxSessions
                /\ SessionStep(create(c, body))

CreateSession == CreateSessionBy(SessionCallers)

OpenOne == OpenBy(SessionCallers)

CloseOne == CloseBy(SessionCallers)

PatchStatus ==
    \E c \in SessionCallers :
        IF TeacherPermission(c) # "pass" THEN UNCHANGED vars
        ELSE \E pk \in SessionIds, patch \in StatusPatches :
                SessionStep(partial_update(c, pk, patch))

NextSession ==
    \/ CreateSession
    \/ OpenOne
    \/ CloseOne
    \/ PatchStatus

SpecSession == Init /\ [][NextSession]_vars

\* C14: the status of an existing session changes only in a step of open or
\* close, and a session that is created starts with status OPEN whatever
\* status the request supplies.
C14_StatusOnlyByLifecycle ==
    [][ \A id \in DOMAIN sessions' :
          IF id \in DOMAIN sessions
          THEN sessions'[id].status # sessions[id].status =>
                  (resp' # resp /\ resp'.op \in {"open", "close"})
          ELSE sessions'[id].status = "OPEN"
      ]_vars

\* a creation whose batch_id is missing or names no batch of the organisation
\* and branch of the caller is refused and creates nothing
CreateRefused ==
    \A c \in SessionCallers, body \in Bodies :
        LET ctx == Context(c)
            r == create(c, body)
        IN  (ctx.ok /\ (body.batch_id = NoneStr \/ body.batch_id \notin BatchIds
                        \/ Batches[body.batch_id].organisation # ctx.organisation
                        \/ Batches[body.batch_id].branch # ctx.branch)) =>
               r.resp.outcome \in Refusals /\ r.sessions = sessions

\* what a completed creation has written
Created ==
    (resp' # resp /\ resp'.op = "create") =>
        LET q == resp'
        IN  /\ q.session \notin DOMAIN sessions
            /\ DOMAIN sessions' = DOMAIN sessions \cup {q.session}
            /\ \A id \in DOMAIN sessions : sessions'[id] = sessions[id]
            /\ sessions'[q.session].organisation = q.org
            /\ sessions'[q.session].branch = q.branch
            /\ sessions'[q.session].batch = q.batch_id
            /\ Batches[q.batch_id].organisation = q.org
            /\ Batches[q.batch_id].branch = q.branch
            /\ sessions'[q.session].max_self_mark_distance_m = 50
            /\ q.patch.status = NoneStr => sessions'[q.session].status = "OPEN"
            /\ q.patch.allow_student_self_mark = NoneStr =>
                  sessions'[q.session].allow_student_self_mark

\* C15: a creation without a batch_id of the caller's organisation and branch
\* is refused and creates no session; a completed creation adds one session
\* with the caller's organisation and branch and the batch of batch_id, and,
\* where the request does not override them, status OPEN, self-mark enabled
\* and a radius of 50 m.
C15_CreateSession == []CreateRefused /\ [][Created]_vars

\* a session created by a teacher of brA1 for batch batA1 without overrides
C15_Witness ==
    /\ resp.op = "create" /\ resp.outcome = "ok" /\ resp.user = "tch1"
    /\ resp.batch_id = "batA1" /\ resp.patch.status = NoneStr
    /\ resp.patch.allow_student_self_mark = NoneStr
    /\ resp.session \in DOMAIN sessions
    /\ sessions[resp.session] = Session("orgA", "brA1", "batA1", resp.session_date)
    /\ resp.session \notin DOMAIN InitSessions

\* bulk-mark lists that must be turned down, and one that must not
BadLists ==
    { <<>>, <<Row("STU1", "EXCUSED")>>,
      <<Row("STU1", "ABSENT"), Row("STU3", "EXCUSED")>>,
      <<Row("STU3", "present"), Row("STU1", "LATE")>> }

FailingLists == BadLists \cup {<<Row("STU1", "LATE"), Row("STUX", "LATE")>>}

\* creations that must be turned down: no batch, no batch_id, a batch_id of
\* another branch, of another organisation, a date that is taken, a status
\* that is none
FailingBodies ==
    { Body(NoneStr, "batA1", 2, NoneStr, NoneStr),
      Body("batA1", NoneStr, 2, NoneStr, NoneStr),
      Body("batA1", "batA2", 2, NoneStr, NoneStr),
      Body("batA1", "batB1", 2, NoneStr, NoneStr),
      Body("batA1", "batA1", 1, NoneStr, NoneStr),
      Body("batA1", "batA1", 2, "DONE", NoneStr) }

\* C16: in every state, a marking or session request that does not complete
\* leaves sessions and records as they are: a self-mark that is turned down,
\* a correction with an unrecognised status or of a record that does not
\* resolve, a bulk mark on an invalid session, with an empty list or with an
\* unrecognised status in any row, and a creation that is turned down; such
\* requests do not complete.
C16_FailuresChangeNothing ==
    \A c \in Callers :
        /\ \A in \in GeoInputs :
              SelfMark(c, in).resp.outcome # "ok" =>
                  SelfMark(c, in).records = records
        /\ \A pk \in RecordIds, st \in StatusInputs :
              LET r == correct(c, pk, st)
              IN  /\ r.resp.outcome # "ok" => r.records = records
                  /\ (Upper[st] \notin AttendanceStatus
                      \/ RecordInBranch(pk, Context(c)) = {}) =>
                        r.resp.outcome # "ok"
        /\ \A session_id \in SessionIds, rows \in FailingLists :
              LET r == teacher_bulk_mark(c, session_id, rows)
              IN  /\ r.resp.outcome # "ok" => r.records = records
                  /\ (rows \in BadLists \/ ~SessionInBranch(session_id, Context(c))) =>
                        r.resp.outcome # "ok"
        /\ \A body \in FailingBodies :
              LET r == create(c, body)
              IN  /\ r.resp.outcome # "ok" => r.sessions = sessions
                  /\ (body.batch = NoneStr \/ ~BatchInBranch(body.batch_id, Context(c))
                        \/ body.status = "DONE") => r.resp.outcome # "ok"

\* with a record of STU1 in the ledger, a bulk mark whose second row has an
\* unrecognised status is turned down as a whole
C16_Witness ==
    /\ \E r \in records : r.student = "st1" /\ r.status = "PRESENT"
    /\ resp.op = "teacher_bulk_mark" /\ resp.outcome = "ok"
    /\ LET r == teacher_bulk_mark(Caller("tch1", "orgA", "brA1"), 1,
                    <<Row("STU1", "ABSENT"), Row("STU3", "EXCUSED")>>)
       IN  r.resp.outcome = "invalid" /\ r.records = records

(***************************************************************************)
(* Bulk marks of several rows as concurrent transactions.  The request is  *)
(* one transaction (@transaction.atomic inside ATOMIC_REQUESTS): its       *)
(* writes are applied to the table when it commits and are dropped when it *)
(* fails.  A key written by a transaction stays locked until the           *)
(* transaction ends; two transactions that wait for each other's keys are  *)
(* a deadlock, and the database ends one of them with an error.            *)
(***************************************************************************)
TxResting ==
    [pc |-> "idle", c |-> Caller(NoneStr, NoneStr, NoneStr),
     session |-> NoneInt, rows |-> <<>>, next |-> 1, writes |-> {},
     saved |-> 0, outcome |-> NoneStr]

InitAtomic ==
    /\ branches = InitBranches
    /\ students = InitStudents
    /\ memberships = Memberships
    /\ enrollments = InitEnrollments
    /\ sessions = InitSessions
    /\ records = {}
    /\ resp = NoResp
    /\ pcs = [w \in Workers |-> TxResting]

\* two lists over the same two students, in opposite orders, each with a
\* status of its own; the second names an unknown student as well
AtomicLists ==
    { <<Row("STU1", "PRESENT"), Row("STU3", "PRESENT")>>,
      <<Row("STU3", "ABSENT"), Row("STUX", "ABSENT"), Row("STU1", "ABSENT")>> }

AtomicCallers == {Caller("tch1", "orgA", "brA1")}

\* the table with the row image put in place of the row of its key
Overlay(table, image) ==
    (table \ RowsFor(table, image.session, image.student)) \cup {image}

RECURSIVE OverlayAll(_, _)
OverlayAll(table, images) ==
    IF images = {} THEN table
    ELSE LET image == CHOOSE x \in images : TRUE
         IN  OverlayAll(Overlay(table, image), images \ {image})

\* A request outside any transaction: each write is in the table at once.
autocommit(table, image) == Overlay(table, image)

\* @transaction.atomic: the table as the other requests see it after a
\* write of a transaction that has not committed
transaction_atomic(table, image) == table

\* teacher_bulk_mark up to its loop
BeginTx(w) ==
    /\ pcs[w].pc = "idle"
    /\ \E c \in AtomicCallers, session_id \in BulkSessions, rows \in AtomicLists :
          LET ctx == get_tenant_context(c.user, c.org, c.branch)
          IN  /\ check_permissions(ctx, IsTeacher(ctx)) = "pass"
              /\ TeacherBulkMarkSerializerValid(rows)
              /\ SessionInBranch(session_id, ctx)
              /\ pcs' = [pcs EXCEPT ![w] =
                           [TxResting EXCEPT !.pc = "loop", !.c = c,
                               !.session = session_id, !.rows = rows]]
    /\ UNCHANGED <<store, resp>>

\* student_map.get(record["student_public_id"]) for the row the loop is at
Target(w) ==
    LET me == pcs[w]
        ctx == get_tenant_context(me.c.user, me.c.org, me.c.branch)
    IN  IF me.pc # "loop" \/ me.next > Len(me.rows) THEN {}
        ELSE {st \in student_map(ctx, me.rows) :
                 st.public_id = me.rows[me.next].student_public_id}

\* w is at a key that the transaction of v has written
Waits(w, v) ==
    /\ w # v
    /\ \E st \in Target(w) : RowsFor(pcs[v].writes, pcs[w].session, st.id) # {}

\* if not student: continue
SkipRow(w) ==
    /\ pcs[w].pc = "loop" /\ pcs[w].next <= Len(pcs[w].rows)
    /\ Target(w) = {}
    /\ pcs' = [pcs EXCEPT ![w].next = @ + 1]
    /\ UNCHANGED <<store, resp>>

\* the id of an inserted row: an id that no row has (the least one, which
\* keeps the ids of the model bounded)
FreshId(recs) ==
    CHOOSE i \in 1..(Cardinality(recs) + 1) :
        /\ \A r \in recs : r.id # i
        /\ \A j \in 1..(i - 1) : \E r \in recs : r.id = j

\* update_or_create of one row of the list, inside the transaction
WriteRow(w) ==
    /\ pcs[w].pc = "loop" /\ pcs[w].next <= Len(pcs[w].rows)
    /\ \A v \in Workers : ~Waits(w, v)
    /\ \E st \in Target(w) :
          LET me == pcs[w]
              ctx == get_tenant_context(me.c.user, me.c.org, me.c.branch)
              defaults == Defaults(ctx, sessions[me.session],
                                   me.rows[me.next].status, "TEACHER", me.c.user)
              mine == OverlayAll(records, me.writes)
              found == RowsFor(mine, me.session, st.id)
              pending == UNION {pcs[v].writes : v \in Workers}
              image == IF found = {}
                       THEN [NewRecord(mine, me.session, st.id, defaults)
                                EXCEPT !.id = FreshId(records \cup pending)]
                       ELSE ApplyDefaults(CHOOSE r \in found : TRUE, defaults)
          IN  /\ pcs' = [pcs EXCEPT ![w].next = @ + 1, ![w].saved = @ + 1,
                                    ![w].writes = Overlay(@, image)]
              /\ records' = transaction_atomic(records, image)
    /\ UNCHANGED <<branches, memberships, students, enrollments, sessions, resp>>

\* the response of the bulk mark: the loop is over and the transaction
\* commits
CommitTx(w) ==
    /\ pcs[w].pc = "loop" /\ pcs[w].next > Len(pcs[w].rows)
    /\ records' = OverlayAll(records, pcs[w].writes)
    /\ resp' = [Request("teacher_bulk_mark", pcs[w].c) EXCEPT !.outcome = "ok",
                   !.session = pcs[w].session, !.rows = pcs[w].rows,
                   !.saved = pcs[w].saved]
    /\ pcs' = [pcs EXCEPT ![w] = [TxResting EXCEPT !.outcome = "ok",
                                                   !.saved = pcs[w].saved]]
    /\ UNCHANGED <<branches, memberships, students, enrollments, sessions>>

\* the database ends a transaction of a deadlock: the exception leaves
\* teacher_bulk_mark and the transaction is rolled back
DeadlockTx(w) ==
    /\ \E v \in Workers : Waits(w, v) /\ Waits(v, w)
    /\ resp' = [Request("teacher_bulk_mark", pcs[w].c) EXCEPT
                   !.outcome = "error", !.session = pcs[w].session,
                   !.rows = pcs[w].rows, !.saved = pcs[w].saved]
    /\ pcs' = [pcs EXCEPT ![w] = [TxResting EXCEPT !.outcome = "error",
                                                   !.saved = pcs[w].saved]]
    /\ UNCHANGED store

\* StudentAttendanceViewSet.list: the records of the caller's branch
list_records(c) ==
    LET ctx == get_tenant_context(c.user, c.org, c.branch)
        perm == check_permissions(ctx, IsTeacher(ctx))
    IN  IF perm # "pass" THEN [outcome |-> perm, results |-> {}]
        ELSE [outcome |-> "ok",
              results |-> {r \in records : /\ r.organisation = ctx.organisation
                                           /\ r.branch = ctx.branch}]

\* a list request of another connection, while bulk marks are under way
ListRecords ==
    /\ \E w \in Workers : pcs[w].pc = "loop"
    /\ \E c \in AtomicCallers :
          resp' = [op |-> "list", user |-> c.user,
                   outcome |-> list_records(c).outcome,
                   results |-> list_records(c).results]
    /\ UNCHANGED <<store, pcs>>

NextAtomic ==
    \/ \E w \in Workers : BeginTx(w)
    \/ \E w \in Workers : SkipRow(w)
    \/ \E w \in Workers : WriteRow(w)
    \/ \E w \in Workers : CommitTx(w)
    \/ \E w \in Workers : DeadlockTx(w)
    \/ ListRecords

SpecAtomic == InitAtomic /\ [][NextAtomic]_vars

\* the records of session 1 for the two students of the lists come from one
\* bulk mark: both are there or none, with one status
WholeBulk(recs) ==
    LET a == RowsFor(recs, 1, "st1")
        b == RowsFor(recs, 1, "st3")
    IN  /\ a = {} <=> b = {}
        /\ \A x \in a, y \in b : x.status = y.status
        /\ Cardinality(a) <= 1 /\ Cardinality(b) <= 1

\* a step that changes the table is the commit of one bulk mark and puts
\* every row the bulk mark has written into the table, and nothing else
CommitsWhole ==
    records' # records =>
        \E w \in Workers :
            /\ pcs[w].pc = "loop" /\ pcs'[w].pc = "idle"
            /\ resp'.op = "teacher_bulk_mark" /\ resp'.outcome = "ok"
            /\ resp'.saved = Cardinality(pcs[w].writes)
            /\ pcs[w].writes \subseteq records'
            /\ \A r \in records' \ pcs[w].writes : r \in records

\* a bulk mark that ends with an error leaves the table as it was: no row
\* it has written comes into the table
FailsWhole ==
    \A w \in Workers :
        (pcs[w].pc = "loop" /\ pcs'[w].pc = "idle" /\ pcs'[w].outcome = "error")
            => /\ records' = records
               /\ \A image \in pcs[w].writes \ records : image \notin records'

\* C17: a bulk mark commits all of its resolvable rows or none: the table,
\* and every list another request reads while bulk marks are under way,
\* holds the rows of the two students from one bulk mark; only the commit
\* of a bulk mark changes the table, with all its rows at once; a bulk mark
\* that fails after writing rows leaves none of them.
C17_BulkAllOrNothing ==
    /\ [](WholeBulk(records) /\ (resp.op = "list" => WholeBulk(resp.results)))
    /\ [][CommitsWhole /\ FailsWhole]_vars

\* a list was read while a bulk mark had written one of its two rows and
\* after another bulk mark had failed in a deadlock with one row written:
\* the list shows the two rows of an earlier bulk mark
C17_Witness ==
    /\ resp.op = "list" /\ resp.outcome = "ok" /\ resp.results = records
    /\ Cardinality(records) = 2
    /\ \E w, v \in Workers :
          /\ pcs[w].pc = "loop" /\ Cardinality(pcs[w].writes) = 1
          /\ \A image \in pcs[w].writes : image \notin records
          /\ pcs[v].outcome = "error" /\ pcs[v].saved = 1

(***************************************************************************)
(* Enrollment of a student in a batch (academics/api/views.py,             *)
(* StudentViewSet.enroll and unenroll).                                    *)
(***************************************************************************)
IsBranchAdmin(ctx) == ctx.role \in {"ORG_OWNER", "ORG_ADMIN", "BRANCH_ADMIN"}

\* self.get_object(): the student of the URL among those of the caller's
\* organisation and branch
StudentInBranch(pk, ctx) ==
    {st \in students :
        st.id = pk /\ st.organisation = ctx.organisation /\ st.branch = ctx.branch}

EnrollmentsFor(rows, batch, student) ==
    {e \in rows : e.batch = batch /\ e.student = student}

\* An enrollment that inserts a row whatever the table holds.
enrollment_create(rows, batch, student) ==
    rows \cup {Enrollment(FreshId(rows), batch, student, "ACTIVE")}

\* BatchEnrollment.objects.update_or_create(batch=, student=,
\* defaults={"status": ACTIVE})
enrollment_update_or_create(rows, batch, student) ==
    LET found == EnrollmentsFor(rows, batch, student)
    IN  IF found = {}
        THEN rows \cup {Enrollment(FreshId(rows), batch, student, "ACTIVE")}
        ELSE {IF e \in found THEN [e EXCEPT !.status = "ACTIVE"] ELSE e :
                e \in rows}

EnrollRequest(op, c, pk, batch_id) ==
    [op |-> op, user |-> c.user, org |-> c.org, branch |-> c.branch,
     student |-> pk, batch_id |-> batch_id, outcome |-> NoneStr]

enroll(c, pk, batch_id) ==
    LET ctx == get_tenant_context(c.user, c.org, c.branch)
        req == EnrollRequest("enroll", c, pk, batch_id)
        perm == check_permissions(ctx, IsBranchAdmin(ctx))
    IN  IF perm # "pass" THEN
            [resp |-> [req EXCEPT !.outcome = perm], enrollments |-> enrollments]
        ELSE IF StudentInBranch(pk, ctx) = {} THEN
            [resp |-> [req EXCEPT !.outcome = "not_found"],
             enrollments |-> enrollments]
        ELSE IF batch_id = NoneStr \/ ~BatchInBranch(batch_id, ctx) THEN
            [resp |-> [req EXCEPT !.outcome = "invalid"],
             enrollments |-> enrollments]
        ELSE [resp |-> [req EXCEPT !.outcome = "ok"],
              enrollments |-> enrollment_update_or_create(enrollments, batch_id, pk)]

\* BatchEnrollment.objects.filter(student=, batch_id=, batch__organisation=,
\* batch__branch=).first()
EnrollmentInBranch(pk, batch_id, ctx) ==
    {e \in EnrollmentsFor(enrollments, batch_id, pk) : BatchInBranch(e.batch, ctx)}

unenroll(c, pk, batch_id) ==
    LET ctx == get_tenant_context(c.user, c.org, c.branch)
        req == EnrollRequest("unenroll", c, pk, batch_id)
        perm == check_permissions(ctx, IsBranchAdmin(ctx))
    IN  IF perm # "pass" THEN
            [resp |-> [req EXCEPT !.outcome = perm], enrollments |-> enrollments]
        ELSE IF StudentInBranch(pk, ctx) = {} THEN
            [resp |-> [req EXCEPT !.outcome = "not_found"],
             enrollments |-> enrollments]
        ELSE IF batch_id = NoneStr THEN
            [resp |-> [req EXCEPT !.outcome = "invalid"],
             enrollments |-> enrollments]
        ELSE IF EnrollmentInBranch(pk, batch_id, ctx) = {} THEN
            [resp |-> [req EXCEPT !.outcome = "not_found"],
             enrollments |-> enrollments]
        ELSE LET e == CHOOSE x \in EnrollmentInBranch(pk, batch_id, ctx) : TRUE
             IN  [resp |-> [req EXCEPT !.outcome = "ok"],
                  enrollments |-> (enrollments \ {e})
                                      \cup {[e EXCEPT !.status = "LEFT"]}]

EnrollCallers ==
    { Caller("adm", "orgA", "brA1"), Caller("own", "orgA", "brA1"),
      Caller("own", "orgA", "brA2"), Caller("tch1", "orgA", "brA1") }

EnrollStudents == {"st1", "st2", "st3", "st4", "stB"}

EnrollBatches == {NoneStr, "batA1", "batA2", "batB1"}

\* the tables at the start: the set-up, with the enrollment of st4 in
\* batA1 active, paused or not there
PausedRow == Enrollment(4, "batA1", "st4", "PAUSED")

EnrollStarts ==
    { InitEnrollments,
      InitEnrollments \ {Enrollment(4, "batA1", "st4", "ACTIVE")},
      (InitEnrollments \ {Enrollment(4, "batA1", "st4", "ACTIVE")})
          \cup {PausedRow} }

InitEnroll ==
    /\ branches = InitBranches
    /\ students = InitStudents
    /\ memberships = Memberships
    /\ enrollments \in EnrollStarts
    /\ sessions = InitSessions
    /\ records = {}
    /\ resp = NoResp
    /\ pcs = Idle

EnrollBy(C) ==
    \E c \in C, pk \in EnrollStudents, batch_id \in EnrollBatches :
        LET r == enroll(c, pk, batch_id)
        IN  IF r.resp.outcome # "ok" THEN UNCHANGED vars
            ELSE /\ enrollments' = r.enrollments
                 /\ resp' = r.resp
                 /\ UNCHANGED <<branches, memberships, students, sessions, records, pcs>>

UnenrollBy(C) ==
    \E c \in C, pk \in EnrollStudents, batch_id \in EnrollBatches :
        LET r == unenroll(c, pk, batch_id)
        IN  IF r.resp.outcome # "ok" THEN UNCHANGED vars
            ELSE /\ enrollments' = r.enrollments
                 /\ resp' = r.resp
                 /\ UNCHANGED <<branches, memberships, students, sessions, records, pcs>>

Enroll == EnrollBy(EnrollCallers)

Unenroll == UnenrollBy(EnrollCallers)

NextEnroll == Enroll \/ Unenroll

SpecEnroll == InitEnroll /\ [][NextEnroll]_vars

\* at most one row per (batch, student), and no two rows with one id
OneRowPerPair ==
    \A e1, e2 \in enrollments :
        ((e1.batch = e2.batch /\ e1.student = e2.student) \/ e1.id = e2.id)
            => e1 = e2

\* what a request that went through has done to the table
EnrollStep ==
    enrollments' # enrollments \/ resp' # resp =>
        LET before == EnrollmentsFor(enrollments, resp'.batch_id, resp'.student)
            after == EnrollmentsFor(enrollments', resp'.batch_id, resp'.student)
            others == enrollments \ before
        IN  /\ resp'.outcome = "ok"
            /\ enrollments' \ after = others
            /\ Cardinality(after) = 1
            /\ resp'.op = "enroll" =>
                  /\ \A e \in after : e.status = "ACTIVE"
                  /\ before # {} => {e.id : e \in after} = {e.id : e \in before}
            /\ resp'.op = "unenroll" =>
                  /\ before # {}
                  /\ \A e \in after : e.status = "LEFT"
                  /\ {e.id : e \in after} = {e.id : e \in before}

\* C18: the enrollment table never holds two rows of one (batch, student);
\* an enroll sets the one row of the pair to ACTIVE, inserting it only when
\* the pair has no row, and an unenroll sets the row of the pair to LEFT and
\* keeps it; no other row changes.
C18_OneEnrollmentPerPair == []OneRowPerPair /\ [][EnrollStep]_vars

\* st4 was paused in batA1, has been enrolled again and then unenrolled: the
\* row of the start is still the only one of the pair, and it is LEFT
C18_Witness ==
    /\ resp.op = "unenroll" /\ resp.outcome = "ok"
    /\ resp.student = "st4" /\ resp.batch_id = "batA1"
    /\ EnrollmentsFor(enrollments, "batA1", "st4")
           = {Enrollment(4, "batA1", "st4", "LEFT")}
    /\ Cardinality(enrollments) = 6

(***************************************************************************)
(* Per-student attendance summary of a batch over a date range             *)
(* (attendance__api__views_reports.py, StudentAttendanceSummaryView).      *)
(* A percentage is an integer number of tenths: 70.0 is 700.               *)
(***************************************************************************)
MaxTotal == 16

\* ClassSession.objects.filter(batch=, session_date__gte=, session_date__lte=)
\* .count()
total_sessions(batch, from_date, to_date) ==
    Cardinality({id \in DOMAIN sessions :
                    /\ sessions[id].batch = batch
                    /\ sessions[id].session_date >= from_date
                    /\ sessions[id].session_date <= to_date})

\* Count("id", filter=Q(status=)) over the records of the batch and of the
\* student whose session is in the range
CountOf(batch, from_date, to_date, student_id, status) ==
    Cardinality({r \in records :
                    /\ r.batch = batch /\ r.student = student_id
                    /\ r.status = status
                    /\ r.session \in DOMAIN sessions
                    /\ sessions[r.session].session_date >= from_date
                    /\ sessions[r.session].session_date <= to_date})

\* att_map.get(student.id, {"present": 0, "absent": 0, "late": 0})
att_map(batch, from_date, to_date, student_id) ==
    [present |-> CountOf(batch, from_date, to_date, student_id, "PRESENT"),
     absent |-> CountOf(batch, from_date, to_date, student_id, "ABSENT"),
     late |-> CountOf(batch, from_date, to_date, student_id, "LATE")]

\* The students with an enrollment of any status in the batch.
any_enrollment(batch) ==
    {st \in students : \E e \in enrollments : e.batch = batch /\ e.student = st.id}

\* StudentProfile.objects.filter(enrollments__batch=,
\* enrollments__status=ACTIVE).distinct()
enrolled_students(batch) ==
    {st \in students :
        \E e \in enrollments :
            e.batch = batch /\ e.student = st.id /\ e.status = "ACTIVE"}

\* round(present / total_sessions * 100, 1) if total_sessions > 0 else 0.0,
\* in tenths; round() takes a tie to the even digit
attendance_pct(present, total) ==
    IF total <= 0 THEN 0
    ELSE LET q == (1000 * present) \div total
             r == (1000 * present) % total
         IN  IF 2 * r < total THEN q
             ELSE IF 2 * r > total THEN q + 1
             ELSE IF q % 2 = 0 THEN q ELSE q + 1

\* "Good" if pct >= 80 else ("Warning" if pct >= 60 else "Critical")
att_status(pct) ==
    IF pct >= 800 THEN "Good" ELSE IF pct >= 600 THEN "Warning" ELSE "Critical"

SummaryRow(st, att, total) ==
    [public_id |-> st.public_id, present |-> att.present,
     absent |-> att.absent, late |-> att.late,
     attendance_pct |-> attendance_pct(att.present, total),
     status |-> att_status(attendance_pct(att.present, total))]

\* students_data.sort(key=attendance_pct): rows of one percentage stay in
\* the order the query gave them, which the code leaves to the database
RECURSIVE SortedByPct(_)
SortedByPct(rows) ==
    IF rows = {} THEN <<>>
    ELSE LET first == CHOOSE x \in rows :
                         \A y \in rows : x.attendance_pct <= y.attendance_pct
         IN  <<first>> \o SortedByPct(rows \ {first})

SummaryRequest(c, batch_id, from_date, to_date) ==
    [op |-> "student_summary", user |-> c.user, org |-> c.org,
     branch |-> c.branch, batch_id |-> batch_id, from_date |-> from_date,
     to_date |-> to_date, outcome |-> NoneStr, total_sessions |-> NoneInt,
     students |-> <<>>]

StudentAttendanceSummary(c, batch_id, from_date, to_date) ==
    LET ctx == get_tenant_context(c.user, c.org, c.branch)
        req == SummaryRequest(c, batch_id, from_date, to_date)
        perm == check_permissions(ctx, IsBranchAdmin(ctx))
    IN  IF perm # "pass" THEN [req EXCEPT !.outcome = perm]
        ELSE IF from_date = NoneInt \/ to_date = NoneInt \/ batch_id = NoneStr
        THEN [req EXCEPT !.outcome = "invalid"]
        ELSE IF ~BatchInBranch(batch_id, ctx) THEN [req EXCEPT !.outcome = "invalid"]
        ELSE LET total == total_sessions(batch_id, from_date, to_date)
                 rows == {SummaryRow(st, att_map(batch_id, from_date, to_date,
                                                 st.id), total) :
                             st \in enrolled_students(batch_id)}
             IN  [req EXCEPT !.outcome = "ok", !.total_sessions = total,
                             !.students = SortedByPct(rows)]

\* The tables the summary is taken of: n sessions of batA1 on the days 1..n;
\* st1 has p PRESENT, a ABSENT and l LATE records, st3 is enrolled and has
\* none, st4 is paused and st2 has left, each with a PRESENT record of the
\* first session.
SummaryEnrollments ==
    (InitEnrollments \ {Enrollment(4, "batA1", "st4", "ACTIVE")})
        \cup {Enrollment(4, "batA1", "st4", "PAUSED")}

SummarySessions(n) ==
    [id \in 1..n |-> Session("orgA", "brA1", "batA1", id)]

SummaryRecord(id, session_id, student_id, status) ==
    [NewRecord({}, session_id, student_id,
               Defaults([organisation |-> "orgA", branch |-> "brA1"],
                        [batch |-> "batA1"], status, "TEACHER", "tch1"))
        EXCEPT !.id = id]

SummaryRecords(n, p, a, l) ==
    {SummaryRecord(i, i, "st1",
                   IF i <= p THEN "PRESENT"
                   ELSE IF i <= p + a THEN "ABSENT" ELSE "LATE") :
        i \in 1..(p + a + l)}
    \cup (IF n >= 1 THEN {SummaryRecord(n + 1, 1, "st4", "PRESENT"),
                          SummaryRecord(n + 2, 1, "st2", "PRESENT")}
          ELSE {})

InitSummary ==
    /\ branches = InitBranches
    /\ students = InitStudents
    /\ memberships = Memberships
    /\ enrollments = SummaryEnrollments
    /\ \E n \in 0..MaxTotal, p \in 0..MaxTotal, a \in 0..2, l \in 0..1 :
          /\ p + a + l <= n
          /\ sessions = SummarySessions(n)
          /\ records = SummaryRecords(n, p, a, l)
    /\ resp = NoResp
    /\ pcs = Idle

SummaryCallers == {Caller("adm", "orgA", "brA1"), Caller("tch1", "orgA", "brA1")}

SummaryBatches == {NoneStr, "batA1", "batA2"}

SummaryRanges == {<<1, MaxTotal>>, <<2, 5>>, <<NoneInt, 3>>}

StudentSummaryBy(C) ==
    \E c \in C, batch_id \in SummaryBatches, range \in SummaryRanges :
        LET r == StudentAttendanceSummary(c, batch_id, range[1], range[2])
        IN  IF r.outcome # "ok" THEN UNCHANGED vars
            ELSE resp' = r /\ UNCHANGED <<store, pcs>>

StudentSummary == StudentSummaryBy(SummaryCallers)

NextSummary == StudentSummary

SpecSummary == InitSummary /\ [][NextSummary]_vars

\* the sessions of the range, and the records of a status a student has in
\* them, counted from the tables
InRange(id) ==
    /\ sessions[id].batch = resp.batch_id
    /\ sessions[id].session_date >= resp.from_date
    /\ sessions[id].session_date <= resp.to_date

Marked(student_id, status) ==
    {r \in records : /\ r.student = student_id /\ r.status = status
                     /\ r.batch = resp.batch_id /\ InRange(r.session)}

\* C19: a summary that is answered lists the students with an ACTIVE
\* enrollment in the batch, each once, and no other; a row counts the
\* PRESENT, ABSENT and LATE records of its student in the range (none: 0 %);
\* its percentage is PRESENT / sessions of the range x 100 to the nearest
\* tenth, 0 without sessions; it is Good from 80, Warning from 60 up to 80,
\* Critical under 60; 7 PRESENT, 2 ABSENT, 1 LATE over 10 sessions is 70.0
\* and Warning.
C19_StudentSummary ==
    (resp.op = "student_summary" /\ resp.outcome = "ok") =>
        LET total == Cardinality({id \in DOMAIN sessions : InRange(id)})
            rows == {resp.students[i] : i \in 1..Len(resp.students)}
            listed == {st \in students :
                          \E e \in enrollments :
                              /\ e.batch = resp.batch_id /\ e.student = st.id
                              /\ e.status = "ACTIVE"}
        IN  /\ resp.total_sessions = total
            /\ Len(resp.students) = Cardinality(listed)
            /\ {x.public_id : x \in rows} = {st.public_id : st \in listed}
            /\ \A x \in rows : \A st \in listed :
                  x.public_id = st.public_id =>
                      /\ x.present = Cardinality(Marked(st.id, "PRESENT"))
                      /\ x.absent = Cardinality(Marked(st.id, "ABSENT"))
                      /\ x.late = Cardinality(Marked(st.id, "LATE"))
            /\ \A x \in rows :
                  /\ total = 0 => x.attendance_pct = 0
                  /\ total > 0 =>
                        /\ 2 * (x.attendance_pct * total - 1000 * x.present) <= total
                        /\ 2 * (1000 * x.present - x.attendance_pct * total) <= total
                  /\ x.status = "Good" <=> x.attendance_pct >= 800
                  /\ x.status = "Warning" <=>
                        (x.attendance_pct >= 600 /\ x.attendance_pct < 800)
                  /\ x.status = "Critical" <=> x.attendance_pct < 600
                  /\ (x.present = 7 /\ x.absent = 2 /\ x.late = 1 /\ total = 10)
                        => (x.attendance_pct = 700 /\ x.status = "Warning")

\* the summary of the days 1..16 of ten sessions: st1 with 7 PRESENT,
\* 2 ABSENT and 1 LATE is at 70.0 and Warning, st3 without records at 0
C19_Witness ==
    /\ resp.op = "student_summary" /\ resp.outcome = "ok"
    /\ resp.total_sessions = 10
    /\ resp.students =
          << [public_id |-> "STU3", present |-> 0, absent |-> 0, late |-> 0,
              attendance_pct |-> 0, status |-> "Critical"],
             [public_id |-> "STU1", present |-> 7, absent |-> 2, late |-> 1,
              attendance_pct |-> 700, status |-> "Warning"] >>

(***************************************************************************)
(* The haversine distance of the geofence (attendance/api/serializers.py,  *)
(* StudentGeoMarkSerializer.validate).  The code computes in binary        *)
(* floating point; here a float is m * 2^e with a mantissa m of 30 bits    *)
(* (|m| in 2^29 .. 2^30 - 1, or 0), every operation truncates to that, and *)
(* no intermediate leaves 32 bits.  Results agree with the doubles of the  *)
(* code to about one part in 10^8.                                         *)
(***************************************************************************)
Precision ==
    [bits |-> 30, top |-> 2^30, low |-> 2^15, series |-> 13, newton |-> 6,
     atan_series |-> 7]

Sign(n) == IF n < 0 THEN -1 ELSE 1

Zero == [m |-> 0, e |-> 0]

RECURSIVE Norm(_, _)
Norm(m, e) ==
    IF m = 0 THEN Zero
    ELSE IF Abs(m) >= Precision.top THEN Norm(Sign(m) * (Abs(m) \div 2), e + 1)
    ELSE IF Abs(m) < Precision.top \div 2 THEN Norm(m * 2, e - 1)
    ELSE [m |-> m, e |-> e]

FromInt(n) == Norm(n, 0)

One == FromInt(1)

Neg(x) == [m |-> -x.m, e |-> x.e]

Half(x) == IF x.m = 0 THEN x ELSE [m |-> x.m, e |-> x.e - 1]

\* the high 30 bits of the product of two mantissas, from their 15-bit halves
MulHi(a, b) ==
    LET a1 == a \div Precision.low
        a0 == a % Precision.low
        b1 == b \div Precision.low
        b0 == b % Precision.low
    IN  a1 * b1
          + (a1 * b0 + a0 * b1 + (a0 * b0) \div Precision.low) \div Precision.low

Mul(x, y) ==
    IF x.m = 0 \/ y.m = 0 THEN Zero
    ELSE Norm(Sign(x.m) * Sign(y.m) * MulHi(Abs(x.m), Abs(y.m)),
              x.e + y.e + Precision.bits)

RECURSIVE Add(_, _)
Add(x, y) ==
    IF x.m = 0 THEN y
    ELSE IF y.m = 0 THEN x
    ELSE IF x.e < y.e THEN Add(y, x)
    ELSE IF x.e - y.e > Precision.bits THEN x
    ELSE Norm(x.m + Sign(y.m) * (Abs(y.m) \div 2^(x.e - y.e)), x.e)

Sub(x, y) == Add(x, Neg(y))

Less(x, y) == Sub(x, y).m < 0

\* k more bits of the quotient r / d, for r < d
RECURSIVE DivBits(_, _, _, _)
DivBits(q, r, d, k) ==
    IF k = 0 THEN q
    ELSE IF 2 * r >= d THEN DivBits(2 * q + 1, 2 * r - d, d, k - 1)
    ELSE DivBits(2 * q, 2 * r, d, k - 1)

Div(x, y) ==
    IF x.m = 0 THEN Zero
    ELSE LET a == Abs(x.m)
             b == Abs(y.m)
             s == Sign(x.m) * Sign(y.m)
         IN  IF a >= b
             THEN Norm(s * DivBits(1, a - b, b, Precision.bits - 1),
                       x.e - y.e - (Precision.bits - 1))
             ELSE Norm(s * DivBits(0, a, b, Precision.bits),
                       x.e - y.e - Precision.bits)

\* math.sqrt: Newton's iteration from a power of two
RECURSIVE Newton(_, _, _)
Newton(x, g, k) ==
    IF k = 0 \/ g.m = 0 THEN g ELSE Newton(x, Half(Add(g, Div(x, g))), k - 1)

sqrt(x) ==
    IF x.m = 0 THEN Zero
    ELSE Newton(x, [m |-> Precision.top \div 2,
                    e |-> ((x.e + Precision.bits + 200) \div 2) - 100
                              - (Precision.bits - 1)],
                Precision.newton)

\* acc + t(k+2) + t(k+4) + ..., t(k+2) = - t(k) * x2 / ((k+1) * (k+2))
RECURSIVE Series(_, _, _, _, _)
Series(acc, term, x2, k, terms) ==
    IF terms = 0 \/ term.m = 0 THEN acc
    ELSE LET t == Neg(Div(Mul(term, x2), FromInt((k + 1) * (k + 2))))
         IN  Series(Add(acc, t), t, x2, k + 2, terms - 1)

\* math.sin, math.cos: the power series
sin(x) == Series(x, x, Mul(x, x), 1, Precision.series)

cos(x) == Series(One, One, Mul(x, x), 0, Precision.series)

Pi == [m |-> 843314857, e |-> -28]

\* math.radians
radians(x) == Div(Mul(x, Pi), FromInt(180))

\* t - t^3 / 3 + t^5 / 5 - ...
RECURSIVE AtanSeries(_, _, _, _, _)
AtanSeries(acc, power, t2, k, terms) ==
    IF terms = 0 \/ power.m = 0 THEN acc
    ELSE LET p == Neg(Mul(power, t2))
         IN  AtanSeries(Add(acc, Div(p, FromInt(k + 2))), p, t2, k + 2, terms - 1)

\* the tangent of half the angle of tangent t
Reduce(t) == Div(t, Add(One, sqrt(Add(One, Mul(t, t)))))

\* the angle of a tangent t in 0 .. 1: four times that of a quarter of it
atan(t) ==
    LET r == Reduce(Reduce(t))
        quarter == AtanSeries(r, r, Mul(r, r), 1, Precision.atan_series)
    IN  IF quarter.m = 0 THEN Zero ELSE [m |-> quarter.m, e |-> quarter.e + 2]

\* math.atan2(y, x) for y >= 0 and x >= 0, not both 0
atan2(y, x) ==
    IF y.m = 0 THEN Zero
    ELSE IF Less(x, y) THEN Sub(Half(Pi), atan(Div(x, y)))
    ELSE atan(Div(y, x))

\* int(): truncation
int(x) ==
    IF x.e >= 0 THEN x.m * 2^(x.e)
    ELSE IF -x.e > Precision.bits THEN 0
    ELSE Sign(x.m) * (Abs(x.m) \div 2^(-x.e))

\* the degrees of a coordinate given in micro-degrees
Degrees(u) == Div(FromInt(u), FromInt(MicroPerDegree))

R == 6371000

\* the distance in metres of serializers.py 97-104, of two points given in
\* micro-degrees
Haversine(lat1, lng1, lat2, lng2) ==
    LET phi1 == radians(Degrees(lat1))
        phi2 == radians(Degrees(lat2))
        d_phi == radians(Degrees(lat2 - lat1))
        d_lam == radians(Degrees(lng2 - lng1))
        s_phi == sin(Half(d_phi))
        s_lam == sin(Half(d_lam))
        a == Add(Mul(s_phi, s_phi),
                 Mul(Mul(cos(phi1), cos(phi2)), Mul(s_lam, s_lam)))
    IN  int(Mul(Mul(FromInt(R), FromInt(2)),
                atan2(sqrt(a), sqrt(Sub(One, a)))))

\* the points of the model, in micro-degrees: the centre of the set-up,
\* points north of it at about 49.8 m, 50.0 m, 51.1 m and one degree, a point
\* east and one south-west of it, and two points one degree apart near the
\* equator
GeoPoints ==
    { <<CenterLat, CenterLng>>, <<CenterLat + 448, CenterLng>>,
      <<CenterLat + 450, CenterLng>>, <<CenterLat + 460, CenterLng>>,
      <<CenterLat + MicroPerDegree, CenterLng>>,
      <<CenterLat, CenterLng + 500>>, <<CenterLat - 300, CenterLng - 400>>,
      <<MicroPerDegree, 0>>, <<2 * MicroPerDegree, 0>> }

\* the distances of the points of the model from each other
Distances ==
    {<<p, q, Haversine(p[1], p[2], q[1], q[2])>> : p \in GeoPoints, q \in GeoPoints}

DistanceOf(p, q) == (CHOOSE t \in Distances : t[1] = p /\ t[2] = q)[3]

\* A fence that is open only inside the radius.
strictly_within(distance_m, radius) == distance_m < radius

\* not (distance_m > session.max_self_mark_distance_m)
within_radius(distance_m, radius) == ~(distance_m > radius)

\* the distance check of validate: measured when the branch has a centre,
\* refused when the distance is over session.max_self_mark_distance_m
Geofence(branch, session, lat, lng) ==
    LET distance_m == IF HasCenter(branch)
                      THEN DistanceOf(<<branch.geo_center_lat,
                                        branch.geo_center_lng>>, <<lat, lng>>)
                      ELSE 0
    IN  [distance_m |-> distance_m,
         outcome |-> IF HasCenter(branch)
                        /\ ~within_radius(distance_m,
                                          session.max_self_mark_distance_m)
                     THEN "invalid" ELSE "ok"]

Radii == {0, 50, 111194}

InitGeo ==
    /\ \E p \in GeoPoints \cup {<<NoneInt, NoneInt>>} :
          branches = [InitBranches EXCEPT !["brA1"] =
                         BranchRow("orgA", [geo_center_lat |-> p[1],
                                            geo_center_lng |-> p[2]])]
    /\ students = InitStudents
    /\ memberships = Memberships
    /\ enrollments = InitEnrollments
    /\ \E radius \in Radii :
          sessions = [InitSessions EXCEPT ![1].max_self_mark_distance_m = radius]
    /\ records = {}
    /\ resp = NoResp
    /\ pcs = Idle

\* the distance check of a self-mark on session 1 from a point
GeofenceCheck ==
    /\ \E p \in GeoPoints :
          LET g == Geofence(GeofenceBranch(1), sessions[1], p[1], p[2])
          IN  resp' = [op |-> "geofence", lat |-> p[1], lng |-> p[2],
                       distance_m |-> g.distance_m, outcome |-> g.outcome]
    /\ UNCHANGED <<store, pcs>>

NextGeo == GeofenceCheck

SpecGeo == InitGeo /\ [][NextGeo]_vars

\* C20: the distance of a point from itself is 0; the distance of two
\* points is the same in both directions; two points of one meridian one
\* degree of latitude apart are 111,000 m apart to within 1 %; and a
\* distance that was measured passes the geofence exactly when it is at
\* most the radius of the session.
C20_GeofenceDistance ==
    /\ \A p \in GeoPoints : DistanceOf(p, p) = 0
    /\ \A p, q \in GeoPoints : DistanceOf(p, q) = DistanceOf(q, p)
    /\ \A p, q \in GeoPoints :
          (p[2] = q[2] /\ q[1] - p[1] = MicroPerDegree) =>
              100 * Abs(DistanceOf(p, q) - 111000) <= 111000
    /\ (resp.op = "geofence" /\ HasCenter(GeofenceBranch(1))) =>
          /\ resp.distance_m =
                 DistanceOf(<<resp.lat, resp.lng>>,
                            <<GeofenceBranch(1).geo_center_lat,
                              GeofenceBranch(1).geo_center_lng>>)
          /\ resp.outcome = "ok" <=>
                 resp.distance_m <= sessions[1].max_self_mark_distance_m

\* a point 50 m north of the centre was measured against a radius of 50 m
\* and passed, and the point one degree north of the centre is 111,194 m away
C20_Witness ==
    /\ resp.op = "geofence" /\ resp.outcome = "ok"
    /\ GeofenceBranch(1).geo_center_lat = CenterLat
    /\ GeofenceBranch(1).geo_center_lng = CenterLng
    /\ resp.lat = CenterLat + 450 /\ resp.lng = CenterLng
    /\ resp.distance_m = 50
    /\ sessions[1].max_self_mark_distance_m = 50
    /\ DistanceOf(<<CenterLat, CenterLng>>,
                  <<CenterLat + MicroPerDegree, CenterLng>>) = 111194

\* on the points the self-mark requests of Spec send, the distance along
\* the meridian is the haversine distance
SameMeridian ==
    \A p \in Points :
        DistanceM(CenterLat, CenterLng, p[1], p[2])
            = Haversine(CenterLat, CenterLng, p[1], p[2])

(***************************************************************************)
(* Session status and the two marking paths.                               *)
(***************************************************************************)
\* the students of the branch of caller c that a list names
NamedInBranch(c, rows) ==
    {st \in students :
        /\ st.organisation = c.org /\ st.branch = c.branch
        /\ \E i \in 1..Len(rows) : rows[i].student_public_id = st.public_id}

\* C21: a teacher's bulk mark of a valid list on a session of the caller's
\* organisation and branch completes whatever the status of the session
\* (OPEN, CLOSED or CANCELLED) and writes the same thing in each: one record
\* per named student of the branch with the status of the row, provenance
\* TEACHER and the caller as acting user, every other record untouched;
\* a self-mark on a session that is not OPEN is refused and writes nothing.
C21_BulkIgnoresStatus ==
    /\ \A c \in Callers, session_id \in SessionIds, rows \in OneRowLists :
          LET ctx == Context(c)
              r == teacher_bulk_mark(c, session_id, rows)
              keys == {st.id : st \in NamedInBranch(c, rows)}
          IN  ( /\ ctx.ok /\ IsTeacher(ctx)
                /\ session_id \in DOMAIN sessions
                /\ sessions[session_id].organisation = ctx.organisation
                /\ sessions[session_id].branch = ctx.branch
                /\ TeacherBulkMarkSerializerValid(rows) ) =>
              /\ r.resp.outcome = "ok"
              /\ r.resp.saved = Cardinality(keys)
              /\ \A k \in keys :
                    /\ Cardinality(RowsFor(r.records, session_id, k)) = 1
                    /\ \A x \in RowsFor(r.records, session_id, k) :
                          /\ x.status = rows[1].status
                          /\ x.marked_by_type = "TEACHER"
                          /\ x.marked_by_user = c.user
                          /\ x.batch = sessions[session_id].batch
              /\ {x \in r.records : ~(x.session = session_id /\ x.student \in keys)}
                   = {x \in records : ~(x.session = session_id /\ x.student \in keys)}
    /\ \A c \in Callers, in \in GeoInputs :
          (in[1] \in DOMAIN sessions /\ sessions[in[1]].status # "OPEN") =>
              /\ SelfMark(c, in).resp.outcome \in Refusals
              /\ SelfMark(c, in).records = records

\* session 1 was closed and a teacher has bulk-marked STU1 on it since: the
\* record is in the ledger, while the self-mark of STU1 on it is refused
C21_Witness ==
    /\ sessions[1].status = "CLOSED"
    /\ resp.op = "teacher_bulk_mark" /\ resp.outcome = "ok"
    /\ resp.session = 1 /\ resp.saved = 1
    /\ \E x \in records :
          /\ x.session = 1 /\ x.student = "st1"
          /\ x.status = resp.rows[1].status /\ x.marked_by_type = "TEACHER"
    /\ SelfMark(Caller("stu1", "orgA", "brA1"),
                <<1, <<CenterLat + 400, CenterLng>>, NoneStr>>).resp.outcome
          = "invalid"

(***************************************************************************)
(* The radius of the self-mark geofence.  Branch.geo_radius_m is set by    *)
(* the administration of the branch; a session is created with or without  *)
(* "max_self_mark_distance_m" in the body.                                 *)
(***************************************************************************)
BranchRadii == {30, 50, 200}

InitRadius ==
    /\ \E radius \in BranchRadii :
          branches = [InitBranches EXCEPT !["brA1"].geo_radius_m = radius]
    /\ students = InitStudents
    /\ memberships = Memberships
    /\ enrollments = InitEnrollments
    /\ sessions = InitSessions
    /\ records = {}
    /\ resp = NoResp
    /\ pcs = Idle

\* creations of a session of batch batA1 with and without a radius
RadiusBodies ==
    {Body("batA1", "batA1", d, NoneStr, NoneStr) : d \in {2, 3}}
    \cup {WithRadius(Body("batA1", "batA1", d, NoneStr, NoneStr), radius) :
             d \in {2, 3}, radius \in {20, 100}}

CreateWithRadius ==
    \E body \in RadiusBodies :
        /\ Cardinality(DOMAIN sessions) < MaxSessions
        /\ SessionStep(create(Caller("tch1", "orgA", "brA1"), body))

\* a self-mark of student stu1 from a point of the model; the response is
\* logged whatever its outcome
SelfMarkFrom ==
    \E session_id \in SessionIds, p \in Points, status \in GeoStatuses :
        LET r == student_geo_mark(Caller("stu1", "orgA", "brA1"),
                                  session_id, p[1], p[2], status)
        IN  /\ resp' = r.resp
            /\ records' = r.records
            /\ UNCHANGED <<branches, memberships, students, enrollments, sessions, pcs>>

NextRadius ==
    \/ CreateWithRadius
    \/ SelfMarkFrom

SpecRadius == InitRadius /\ [][NextRadius]_vars

\* the radius the resolution order gives a session created with
\* max_self_mark_distance_m = override (NoneInt: not supplied) in branch b
ResolvedRadius(override, b) ==
    IF override # NoneInt THEN override
    ELSE IF b.geo_radius_m # NoneInt THEN b.geo_radius_m
    ELSE 50

\* C22: a self-mark on a session that has just been created passes the
\* distance check exactly when its distance from the centre of the branch is
\* at most the resolved radius: the radius the creation supplied, otherwise
\* the default radius of the branch, otherwise 50 m.
C22_RadiusResolution ==
    (resp.op = "create" /\ resp.outcome = "ok") =>
        \A p \in Points :
            LET b == GeofenceBranch(resp.session)
                d == DistanceM(b.geo_center_lat, b.geo_center_lng, p[1], p[2])
                r == SelfMark(Caller("stu1", "orgA", "brA1"),
                              <<resp.session, p, NoneStr>>)
            IN  r.resp.validated <=>
                    d <= ResolvedRadius(resp.max_self_mark_distance_m, b)

(***************************************************************************)
(* Memberships added while the engine runs: the approval of a join request *)
(* (accounts/api/serializers_admin.py) writes the membership of the user   *)
(* with update_or_create on (user, organisation, branch, role).            *)
(***************************************************************************)
\* created_at is the time of the insert, later than that of every row
Now(ms) == 1 + (CHOOSE t \in {m.created_at : m \in ms} :
                    \A m \in ms : m.created_at <= t)

\* OrgMembership.objects.update_or_create(user=, organisation=, branch=,
\*     role=, defaults={"status": ACTIVE})
membership_update_or_create(ms, user, org, branch, role) ==
    LET found == {m \in ms : /\ m.user = user /\ m.organisation = org
                             /\ m.branch = branch /\ m.role = role}
    IN  IF found = {}
        THEN ms \cup {Membership(user, org, branch, role, "ACTIVE", Now(ms))}
        ELSE (ms \ found) \cup {[m EXCEPT !.status = "ACTIVE"] : m \in found}

\* StudentProfile.objects.update_or_create(user=, organisation=, branch=);
\* the profile of the model is named after its user
profile_update_or_create(sts, user, org, branch) ==
    IF \E st \in sts : st.user = user /\ st.organisation = org /\ st.branch = branch
    THEN sts
    ELSE sts \cup {Student(user, user, user, org, branch)}

\* pending join requests of organisation orgA: user, branch, role
JoinRequests ==
    { <<"stu1", "brA1", "TEACHER">>, <<"stu1", "brA1", "STUDENT">>,
      <<"tch1", "brA1", "PARENT">>, <<"tch1", "brA1", "TEACHER">>,
      <<"tch2", "brA1", "STUDENT">>, <<"sus", "brA1", "TEACHER">> }

\* JoinApproveSerializer.save
ApproveJoin ==
    \E j \in JoinRequests :
        /\ memberships' =
               membership_update_or_create(memberships, j[1], "orgA", j[2], j[3])
        /\ students' = IF j[3] = "STUDENT"
                       THEN profile_update_or_create(students, j[1], "orgA", j[2])
                       ELSE students
        /\ resp' = [NoResp EXCEPT !.op = "approve", !.user = j[1],
                                  !.org = "orgA", !.branch = j[2],
                                  !.status = j[3], !.outcome = "ok"]
        /\ UNCHANGED <<branches, enrollments, sessions, records, pcs>>

MemberCallers ==
    { Caller("stu1", "orgA", "brA1"), Caller("tch1", "orgA", "brA1"),
      Caller("tch2", "orgA", "brA1"), Caller("sus", "orgA", "brA1") }

MemberLists == {<<Row("STU1", "PRESENT")>>, <<Row("STU3", "LATE")>>}

MemberBulkMark ==
    \E c \in MemberCallers :
        IF TeacherPermission(c) # "pass" THEN UNCHANGED vars
        ELSE \E rows \in MemberLists : MarkStep(teacher_bulk_mark(c, 1, rows))

MemberClose == CloseBy(MemberCallers)

NextMember ==
    \/ ApproveJoin
    \/ MemberBulkMark
    \/ MemberClose

SpecMember == Init /\ [][NextMember]_vars

\* the ACTIVE memberships of a user in an organisation that no other one
\* of them was created after
Newest(user, org) ==
    {m \in memberships :
        /\ m.user = user /\ m.organisation = org /\ m.status = "ACTIVE"
        /\ \A n \in memberships :
              (n.user = user /\ n.organisation = org /\ n.status = "ACTIVE") =>
                  n.created_at <= m.created_at}

\* the role decides: every operation of caller c is denied or not as the
\* permission class of the operation says of role
DecidedBy(c, role) ==
    /\ Context(c).role = role
    /\ \A rows \in MemberLists :
          teacher_bulk_mark(c, 1, rows).resp.outcome = "denied"
              <=> role # "TEACHER"
    /\ close(c, 1).resp.outcome = "denied" <=> role # "TEACHER"
    /\ correct(c, 1, "LATE").resp.outcome = "denied" <=> role # "TEACHER"
    /\ \A p \in Points :
          student_geo_mark(c, 1, p[1], p[2], NoneStr).resp.outcome = "denied"
              <=> role # "STUDENT"
    /\ IsBranchAdmin(Context(c))
          <=> role \in {"ORG_OWNER", "ORG_ADMIN", "BRANCH_ADMIN"}

LatestDecides ==
    \A c \in MemberCallers :
        IF Newest(c.user, c.org) = {} THEN ~Context(c).ok
        ELSE /\ Context(c).ok
             /\ Context(c).membership \in Newest(c.user, c.org)
             /\ DecidedBy(c, Context(c).membership.role)

\* an approval that inserts a membership makes it the membership of the
\* user's next requests
NewerTakesOver ==
    \A m \in memberships' \ memberships :
        m.created_at = Now(memberships) =>
            /\ Newest(m.user, m.organisation)' = {m}
            /\ Context(Caller(m.user, m.organisation, m.branch))'.membership = m
            /\ Context(Caller(m.user, m.organisation, m.branch))'.role = m.role

RaceResting ==
    [pc |-> "idle", op |-> NoneStr, c |-> Caller(NoneStr, NoneStr, NoneStr),
     session |-> NoneInt, student |-> NoneStr, status |-> NoneStr,
     lat |-> NoneInt, lng |-> NoneInt, distance_m |-> NoneInt]

InitRace ==
    /\ branches = InitBranches
    /\ students = InitStudents
    /\ memberships = Memberships
    /\ enrollments = InitEnrollments
    /\ sessions = InitSessions
    /\ records = {}
    /\ resp = NoResp
    /\ pcs = [w \in Workers |-> RaceResting]

RaceStudent == Caller("stu1", "orgA", "brA1")

RaceTeacher == Caller("tch1", "orgA", "brA1")

RaceStatuses == {NoneStr, "LATE"}

\* student_geo_mark up to update_or_create: permission and
\* serializer.is_valid(), which reads the session as committed; one
\* self-mark of the student is in flight at a time
BeginSelfMark(w) ==
    /\ pcs[w].pc = "idle"
    /\ \A v \in Workers : pcs[v].op # "student_geo_mark"
    /\ \E p \in Points, status \in RaceStatuses :
          LET ctx == get_tenant_context(RaceStudent.user, RaceStudent.org,
                                        RaceStudent.branch)
              vd == validate(ctx, RaceStudent.user, 1, p[1], p[2])
          IN  /\ check_permissions(ctx, IsStudent(ctx)) = "pass"
              /\ vd.ok
              /\ pcs' = [pcs EXCEPT ![w] =
                           [RaceResting EXCEPT !.pc = "write",
                               !.op = "student_geo_mark", !.c = RaceStudent,
                               !.session = vd.session, !.student = vd.student,
                               !.status = StatusOrDefault(status),
                               !.lat = p[1], !.lng = p[2],
                               !.distance_m = vd.distance_m]]
    /\ UNCHANGED <<store, resp>>

\* the rest of student_geo_mark: the defaults are built and update_or_create
\* writes the record; an exception ends the request with nothing written
WriteSelfMark(w) ==
    /\ pcs[w].pc = "write"
    /\ LET me == pcs[w]
           ctx == get_tenant_context(me.c.user, me.c.org, me.c.branch)
           req == [Request("student_geo_mark", me.c) EXCEPT
                      !.session = me.session, !.lat = me.lat, !.lng = me.lng,
                      !.status = me.status, !.validated = TRUE,
                      !.distance_m = me.distance_m]
           up == update_or_create(records, me.session, me.student,
                     Defaults(ctx, sessions[me.session], me.status,
                              StudentMarkedByName, me.c.user))
       IN  IF StudentMarkedByName \notin MarkedBy \/ ~up.ok
           THEN /\ resp' = [req EXCEPT !.outcome = "error"]
                /\ records' = records
           ELSE /\ resp' = [req EXCEPT !.outcome = "ok"]
                /\ records' = up.recs
    /\ pcs' = [pcs EXCEPT ![w] = RaceResting]
    /\ UNCHANGED <<branches, memberships, students, enrollments, sessions>>

\* open and close up to save(): permission and get_object()
BeginSetStatus(w) ==
    /\ pcs[w].pc = "idle"
    /\ \E op \in {"open", "close"} :
          /\ set_status(RaceTeacher, op, 1, NoneStr).resp.outcome = "ok"
          /\ pcs' = [pcs EXCEPT ![w] =
                       [RaceResting EXCEPT !.pc = "save", !.op = op,
                           !.c = RaceTeacher, !.session = 1]]
    /\ UNCHANGED <<store, resp>>

\* session.save(update_fields=["status", "updated_at"]) and the commit of
\* the request
SaveStatus(w) ==
    /\ pcs[w].pc = "save"
    /\ LET r == IF pcs[w].op = "open" THEN open(pcs[w].c, pcs[w].session)
                ELSE close(pcs[w].c, pcs[w].session)
       IN  /\ resp' = r.resp
           /\ sessions' = r.sessions
    /\ pcs' = [pcs EXCEPT ![w] = RaceResting]
    /\ UNCHANGED <<branches, memberships, students, enrollments, records>>

NextRace ==
    \E w \in Workers :
        \/ BeginSelfMark(w)
        \/ WriteSelfMark(w)
        \/ BeginSetStatus(w)
        \/ SaveStatus(w)

SpecRace == InitRace /\ [][NextRace]_vars

C25_OldStatusIsOverwritten ==
    [][ \A w \in Workers :
          (pcs[w].op = "correct" /\ pcs[w].pc = "commit" /\ pcs'[w].pc = "idle") =>
              /\ resp'.op = "correct"
              /\ \E r \in records :
                    r.id = resp'.rec /\ r.status = resp'.old_status ]_vars

(***************************************************************************)
(* Scope of the rows (Spec).                                               *)
(***************************************************************************)
\* C26: in every state, the organisation, branch and batch of every
\* attendance record are those of the session of the record, and the
\* student of the record is a student of that organisation and branch.
C26_RecordMatchesSession ==
    \A r \in records :
        /\ r.session \in DOMAIN sessions
        /\ r.organisation = sessions[r.session].organisation
        /\ r.branch = sessions[r.session].branch
        /\ r.batch = sessions[r.session].batch
        /\ \E st \in students : st.id = r.student
        /\ \A st \in students :
              st.id = r.student =>
                  /\ st.organisation = sessions[r.session].organisation
                  /\ st.branch = sessions[r.session].branch

\* C27: in every state, the batch of every class session is a batch of the
\* organisation and branch of the session.
C27_SessionBatchInBranch ==
    \A id \in DOMAIN sessions :
        /\ sessions[id].batch \in BatchIds
        /\ Batches[sessions[id].batch].organisation = sessions[id].organisation
        /\ Batches[sessions[id].batch].branch = sessions[id].branch

(***************************************************************************)
(* The branch of the membership and the branch of the request.             *)
(***************************************************************************)
\* the teachers of organisation orgA, asking for each of its branches
BranchCallers ==
    {Caller(u, "orgA", b) : u \in {"tch1", "tch2"}, b \in {"brA1", "brA2"}}

\* the responses of the session and marking operations to caller c
BranchResponses(c) ==
    {teacher_bulk_mark(c, pk, rows).resp : pk \in SessionIds, rows \in OneRowLists}
    \cup {open(c, pk).resp : pk \in SessionIds}
    \cup {close(c, pk).resp : pk \in SessionIds}
    \cup {create(c, Body(b, b, 3, NoneStr, NoneStr)).resp : b \in BatchIds}
    \cup {correct(c, pk, st).resp : pk \in RecordIds, st \in StatusInputs}

\* C28: a session or marking request completes only for a caller whose
\* membership is organisation-wide or bound to the branch of the request; a
\* teacher whose membership is bound to another branch of the organisation
\* creates no session and marks no attendance in the branch asked for.
C28_MembershipCoversBranch ==
    \A c \in BranchCallers :
        \A q \in BranchResponses(c) :
            q.outcome = "ok" =>
                Context(c).membership.branch \in {NoneStr, c.branch}

(***************************************************************************)
(* The student summary over the ledger the requests of Spec leave.         *)
(***************************************************************************)
\* C29: in every state, for every date range, every row of the student
\* summary of batch batA1 has present + absent + late at most the number
\* of sessions counted, and a percentage between 0 and 100.
C29_SummaryBounds ==
    \A range \in {<<1, 1>>, <<1, 3>>, <<2, 3>>} :
        LET s == StudentAttendanceSummary(Caller("adm", "orgA", "brA1"),
                                          "batA1", range[1], range[2])
        IN  /\ s.outcome = "ok"
            /\ \A i \in 1..Len(s.students) :
                  /\ s.students[i].present + s.students[i].absent
                        + s.students[i].late <= s.total_sessions
                  /\ s.students[i].attendance_pct >= 0
                  /\ s.students[i].attendance_pct <= 1000

(***************************************************************************)
(* Bulk-mark lists that name a student more than once (SpecBulk).          *)
(***************************************************************************)
\* the completed bulk mark of this step names a student of the branch in
\* more than one row
NamedTwice ==
    /\ resp' # resp /\ resp'.op = "teacher_bulk_mark"
    /\ Cardinality(ResolvableRows(resp')) > Cardinality(Targets(resp'))

\* every student the list resolves to has one record of the session, with
\* the status of the last row that names the student
LastRowWins ==
    \A st \in Targets(resp') :
        /\ Cardinality(RowsFor(records', resp'.session, st.id)) = 1
        /\ \A r \in RowsFor(records', resp'.session, st.id) :
              r.status = resp'.rows[LastRowOf(resp'.rows, st.public_id)].status

\* the records the call created or updated
Touched ==
    {r \in records' : r.session = resp'.session
                      /\ \E st \in Targets(resp') : r.student = st.id}

\* C30 as stated: a bulk mark whose list names a resolvable student more
\* than once leaves one record of the student with the status of the last
\* such row, and reports as saved the number of distinct records it created
\* or updated.
C30_SavedCountsRecords ==
    [][ NamedTwice => (LastRowWins /\ resp'.saved = Cardinality(Touched)) ]_vars

\* C30 amended: a bulk mark whose list names a resolvable student more than
\* once leaves one record of the student with the status of the last such
\* row, and reports as saved the number of rows of the list that resolve,
\* which is more than the number of records it created or updated.
C30_SavedCountsRows ==
    [][ NamedTwice =>
          /\ LastRowWins
          /\ resp'.saved = Cardinality(ResolvableRows(resp'))
          /\ resp'.saved > Cardinality(Touched) ]_vars

\* STU1 was marked PRESENT and then ABSENT in one list: one record, ABSENT,
\* and saved is 2
C30_Witness ==
    /\ resp.op = "teacher_bulk_mark" /\ resp.outcome = "ok"
    /\ resp.rows = <<Row("STU1", "PRESENT"), Row("STU1", "ABSENT")>>
    /\ resp.saved = 2
    /\ Cardinality(RowsFor(records, 1, "st1")) = 1
    /\ \A r \in RowsFor(records, 1, "st1") : r.status = "ABSENT"

====
